---- MODULE Spec2Model ----
(***************************************************************************)
(* libqfieldsync: packaging of a QGIS project for QField.                  *)
(*                                                                         *)
(* The module holds one state machine per component:                       *)
(*   SpecPk        LayerSource.get_pk_attr_name / pk_attr_name             *)
(*   SpecFid       the synthetic key probe of PythonMiniOffliner           *)
(*   SpecCopy      LayerSource.copy on a directory pair                    *)
(*   SpecOffliner  PythonMiniOffliner._convert_to_offline_project          *)
(*   Spec          OfflineConverter.__init__ / convert / cancel            *)
(*   SpecLinker    the same converter, on projects with value relations    *)
(*   SpecCancel    the same converter, convert() called more than once     *)
(*   SpecLayer     LayerSource: actions and package prevention reasons     *)
(*   SpecTree      remove_empty_groups_from_layer_tree_group               *)
(*   SpecChecker   ProjectChecker.check                                    *)
(*   SpecApply     LayerSource.read_layer / apply                          *)
(* Every specification constrains all variables; the variables of the      *)
(* components it does not run stay at their initial value.                 *)
(***************************************************************************)
EXTENDS Integers, Sequences, FiniteSets, TLC

VARIABLES
    \* LayerSource.get_pk_attr_name: the layer asked and the call's result
    pk_layer, pk_result,
    \* PythonMiniOffliner.create_layer, the key probe: the provider's fields,
    \* the locals fid and counter, and where the loop stands
    fid_fields, fid, counter, fid_pc,
    \* LayerSource.copy: the files of the source and the target directory,
    \* the layer copied, the number of calls made and the last call
    copy_fs, copy_layer, copy_calls, copy_last,
    \* PythonMiniOffliner._convert_to_offline_project: the call's arguments,
    \* the project's layers, title and offline entry, where the call stands,
    \* the local datasource_mapping, the tables of the GeoPackage, and the
    \* create_layer / convert_to_offline_layer calls made so far
    off_args, off_layers, off_project, off_pc, datasource_mapping, gpkg,
    off_calls,
    \* the project's layers as the call found them
    off_original,
    \* OfflineConverter: the constructor's and convert()'s arguments, where
    \* the run stands, its outcome, whether the offliner's signals are
    \* connected, _is_canceled, the live project and its layers, the backup
    \* made by convert(), the files on disk, the locals of _convert and
    \* __layer_data_by_id
    cv_args, cv_pc, cv_outcome, cv_signals, cv_is_canceled, cv_project,
    cv_layers, cv_backup, cv_disk, cv_locals, cv_layer_data_by_id,
    \* the calls _convert made on the project, the layers and the offliner
    \* in this run of convert()
    cv_calls,
    \* the number of the run of convert() on this converter, and whether
    \* _is_canceled was set when the run was started
    cv_run,
    \* LayerSource, the properties that classify a layer: the layer asked
    \* and the last property read with its value
    ls_layer, ls_result,
    \* remove_empty_groups_from_layer_tree_group: the nodes of the layer tree,
    \* the frames of the recursion (the group, the list children() gave and
    \* the place in it) and where the call stands
    tg_nodes, tg_stack, tg_pc,
    \* ProjectChecker.check: the scope asked, the checks of the project that
    \* find something, the layers (action, cloud_action and the checks that
    \* find something), checked_feedback, the check functions called so far,
    \* and the place in the loops: the layer (0 for the project's checks) and
    \* the check
    pck_scope, pck_project, pck_layers, checked_feedback, pck_called, pck_pc,
    pck_layer, pck_check,
    \* LayerSource.apply: the layer's custom properties of the QFieldSync/
    \* prefix, the fields of the LayerSource, the calls made on it with what
    \* they returned and the properties they left, and whether the
    \* LayerSource has been constructed
    ap_props, ap_self, ap_calls, ap_pc

pkVars == <<pk_layer, pk_result>>
fidVars == <<fid_fields, fid, counter, fid_pc>>
copyVars == <<copy_fs, copy_layer, copy_calls, copy_last>>
offVars == <<off_args, off_layers, off_project, off_pc, datasource_mapping, gpkg,
             off_calls, off_original>>
cvVars == <<cv_args, cv_pc, cv_outcome, cv_signals, cv_is_canceled, cv_project,
            cv_layers, cv_backup, cv_disk, cv_locals, cv_layer_data_by_id,
            cv_calls, cv_run>>

lsVars == <<ls_layer, ls_result>>
tgVars == <<tg_nodes, tg_stack, tg_pc>>

\* what an action of one component leaves alone
pckVars == <<pck_scope, pck_project, pck_layers, checked_feedback, pck_called, pck_pc,
            pck_layer, pck_check>>

apVars == <<ap_props, ap_self, ap_calls, ap_pc>>

PkFrame == UNCHANGED <<fidVars, copyVars, offVars, cvVars, lsVars, tgVars, pckVars, apVars>>
FidFrame == UNCHANGED <<pkVars, copyVars, offVars, cvVars, lsVars, tgVars, pckVars, apVars>>
CopyFrame == UNCHANGED <<pkVars, fidVars, offVars, cvVars, lsVars, tgVars, pckVars, apVars>>
OffFrame == UNCHANGED <<pkVars, fidVars, copyVars, cvVars, lsVars, off_original, tgVars, pckVars, apVars>>
CvFrame == UNCHANGED <<pkVars, fidVars, copyVars, offVars, lsVars, cv_run, tgVars, pckVars, apVars>>
LsFrame == UNCHANGED <<pkVars, fidVars, copyVars, offVars, cvVars, tgVars, pckVars, apVars>>
TgFrame == UNCHANGED <<pkVars, fidVars, copyVars, offVars, cvVars, lsVars, pckVars, apVars>>
PckFrame == UNCHANGED <<pkVars, fidVars, copyVars, offVars, cvVars, lsVars, tgVars, apVars>>
ApFrame == UNCHANGED <<pkVars, fidVars, copyVars, offVars, cvVars, lsVars, tgVars, pckVars>>

(***************************************************************************)
(* Text.  A name is a sequence of one-character strings, so that           *)
(* str.lower(), "in", endswith and f-string formatting are computed.       *)
(***************************************************************************)
UpperAlphabet == <<"A","B","C","D","E","F","G","H","I","J","K","L","M",
                   "N","O","P","Q","R","S","T","U","V","W","X","Y","Z">>

LowerAlphabet == <<"a","b","c","d","e","f","g","h","i","j","k","l","m",
                   "n","o","p","q","r","s","t","u","v","w","x","y","z">>

LowerChar(c) ==
    IF \E i \in 1..Len(UpperAlphabet) : UpperAlphabet[i] = c
    THEN LowerAlphabet[CHOOSE i \in 1..Len(UpperAlphabet) : UpperAlphabet[i] = c]
    ELSE c

\* str.lower()
Lower(s) == [i \in 1..Len(s) |-> LowerChar(s[i])]

\* "," in s
HasComma(s) == \E i \in 1..Len(s) : s[i] = ","

\* s.endswith(suffix)
EndsWith(s, suffix) ==
    /\ Len(suffix) <= Len(s)
    /\ SubSeq(s, Len(s) - Len(suffix) + 1, Len(s)) = suffix

DigitChars == <<"0","1","2","3","4","5","6","7","8","9">>

RECURSIVE Digits(_)
\* str(n) for n >= 0
Digits(n) ==
    IF n < 10 THEN <<DigitChars[n + 1]>>
    ELSE Digits(n \div 10) \o <<DigitChars[(n % 10) + 1]>>

IsDigit(c) == \E i \in 1..10 : DigitChars[i] = c

DigitValue(c) == (CHOOSE i \in 1..10 : DigitChars[i] = c) - 1

RECURSIVE DecimalValue(_)
DecimalValue(s) ==
    IF Len(s) = 0 THEN 0
    ELSE 10 * DecimalValue(SubSeq(s, 1, Len(s) - 1)) + DigitValue(s[Len(s)])

NameFid == <<"f","i","d">>
NameFidUpper == <<"F","I","D">>
NameFidMixed == <<"F","i","d">>
NameId == <<"i","d">>
NameComma == <<"a",",","b">>
NameEmpty == <<>>

(***************************************************************************)
(* QgsFields.lookupField: exact name, then case-insensitive name, then     *)
(* case-insensitive alias; 0 when nothing matches (indexes are 1-based     *)
(* here, the code's -1 is 0).                                              *)
(***************************************************************************)
\* the least index of a set of indexes, 0 for the empty set
FirstIndex(S) ==
    IF S = {} THEN 0 ELSE CHOOSE i \in S : \A j \in S : i <= j

lookupField(fields, fieldName) ==
    LET idx == 1..Len(fields)
        exact == { i \in idx : fields[i].name = fieldName }
        nocase == { i \in idx : Lower(fields[i].name) = Lower(fieldName) }
        alias == { i \in idx : /\ fields[i].alias # NameEmpty
                               /\ Lower(fields[i].alias) = Lower(fieldName) }
    IN  IF fieldName = NameEmpty THEN 0
        ELSE IF exact # {} THEN FirstIndex(exact)
        ELSE IF nocase # {} THEN FirstIndex(nocase)
        ELSE FirstIndex(alias)

(***************************************************************************)
(* LayerSource.get_pk_attr_name                                            *)
(***************************************************************************)
PkOk(name) == [status |-> "ok", name |-> name]
PkRaise(error) == [status |-> error, name |-> NameEmpty]
PkNone == [status |-> "none", name |-> NameEmpty]

\* The fid fallback of get_pk_attr_name: the name of the field lookupField
\* finds for "fid" when that name is fid in any case, else the empty name.
FidFallbackWrongCase(fields) ==
    LET fid_idx == lookupField(fields, NameFid)
    IN  IF fid_idx >= 1 /\ fields[fid_idx].name = NameFid
        THEN fields[fid_idx].name
        ELSE NameEmpty

FidFallback(fields) ==
    LET fid_idx == lookupField(fields, NameFid)
    IN  IF fid_idx >= 1 /\ Lower(fields[fid_idx].name) = NameFid
        THEN fields[fid_idx].name
        ELSE NameEmpty

get_pk_attr_name(layer) ==
    IF layer.type # "VectorLayer" THEN PkRaise("ExpectedVectorLayerError")
    ELSE IF Len(layer.pk_indexes) > 1 THEN PkRaise("UnsupportedPrimaryKeyError")
    ELSE LET pk_attr_name ==
                 IF Len(layer.pk_indexes) = 1
                 THEN layer.fields[layer.pk_indexes[1]].name
                 ELSE FidFallback(layer.fields)
         IN  IF pk_attr_name = NameEmpty THEN PkRaise("UnsupportedPrimaryKeyError")
             ELSE IF HasComma(pk_attr_name) THEN PkRaise("UnsupportedPrimaryKeyError")
             ELSE PkOk(pk_attr_name)

\* the pk_attr_name property: the empty name instead of either exception
pk_attr_name(layer) ==
    LET r == get_pk_attr_name(layer)
    IN  IF r.status = "ok" THEN r.name ELSE NameEmpty

MaxPkFields == 2

PkFieldUniverse ==
    { [name |-> NameFid, alias |-> NameEmpty],
      [name |-> NameFidUpper, alias |-> NameEmpty],
      [name |-> NameId, alias |-> NameEmpty],
      [name |-> NameId, alias |-> NameFid],
      [name |-> NameComma, alias |-> NameEmpty] }

PkFieldLists == UNION { [1..n -> PkFieldUniverse] : n \in 0..MaxPkFields }

\* primaryKeyAttributes(): strictly increasing index lists into the fields
PkIndexLists(n) ==
    { s \in UNION { [1..k -> 1..n] : k \in 0..n } :
        \A i \in 1..Len(s), j \in 1..Len(s) : i < j => s[i] < s[j] }

PkLayers ==
    { [type |-> t, fields |-> f, pk_indexes |-> p] :
        t \in {"VectorLayer", "RasterLayer"},
        f \in PkFieldLists,
        p \in UNION { PkIndexLists(n) : n \in 0..MaxPkFields } }

PkIdle ==
    /\ pk_layer = [type |-> "RasterLayer", fields |-> <<>>, pk_indexes |-> <<>>]
    /\ pk_result = [call |-> "none", ret |-> PkNone]

PkInit ==
    /\ pk_layer \in { l \in PkLayers :
                        \A i \in 1..Len(l.pk_indexes) : l.pk_indexes[i] <= Len(l.fields) }
    /\ pk_result = [call |-> "none", ret |-> PkNone]

CallGetPkAttrName ==
    /\ pk_result.call = "none"
    /\ pk_result' = [call |-> "get_pk_attr_name", ret |-> get_pk_attr_name(pk_layer)]
    /\ UNCHANGED pk_layer
    /\ PkFrame

CallPkAttrNameProperty ==
    /\ pk_result.call = "none"
    /\ pk_result' = [call |-> "pk_attr_name",
                     ret |-> PkOk(pk_attr_name(pk_layer))]
    /\ UNCHANGED pk_layer
    /\ PkFrame

NextPk ==
    \/ CallGetPkAttrName
    \/ CallPkAttrNameProperty

(***************************************************************************)
(* PythonMiniOffliner.create_layer: the name of the synthetic key column.  *)
(* A provider's field list is given by the names it spells out (explicit)  *)
(* and by how many of fid, fid_1, fid_2, ... it holds from the start       *)
(* (prefix), which keeps a list of ten thousand fields representable.      *)
(***************************************************************************)
FidProbeLimit == 10000

NameFidUnderscore == <<"f","i","d","_">>

\* f"fid_{counter}"
FidFormatSkipsOne(n) == NameFidUnderscore \o Digits(n + 1)

FidFormat(n) == NameFidUnderscore \o Digits(n)

\* the k-th name the probe can choose: fid, fid_1, fid_2, ...
FidCandidate(k) == IF k = 0 THEN NameFid ELSE FidFormat(k)

\* the k with name = FidCandidate(k), or -1
FidCandidateIndex(name) ==
    IF name = NameFid THEN 0
    ELSE IF /\ Len(name) > 4
            /\ SubSeq(name, 1, 4) = NameFidUnderscore
            /\ \A i \in 5..Len(name) : IsDigit(name[i])
            /\ name[5] # "0"
         THEN DecimalValue(SubSeq(name, 5, Len(name)))
         ELSE -1

\* layer.dataProvider().fields().lookupField(name) >= 0; provider fields
\* carry no alias, so the lookup is the exact, then the case-insensitive one
ProviderHasField(pf, name) ==
    \/ \E n \in pf.explicit : n = name
    \/ \E n \in pf.explicit : Lower(n) = Lower(name)
    \/ FidCandidateIndex(Lower(name)) \in 0..(pf.prefix - 1)

\* one evaluation of the while condition and, when it holds, of the loop body
FidProbeStep(pf, st) ==
    IF ProviderHasField(pf, st.fid)
    THEN [fid |-> FidFormat(st.counter),
          counter |-> st.counter + 1,
          pc |-> IF st.counter + 1 = FidProbeLimit THEN "RuntimeError" ELSE "probe"]
    ELSE [st EXCEPT !.pc = "chosen"]

FidProbeStart == [fid |-> NameFid, counter |-> 1, pc |-> "probe"]

RECURSIVE FidProbeRun(_, _)
FidProbeRun(pf, st) ==
    IF st.pc # "probe" THEN st ELSE FidProbeRun(pf, FidProbeStep(pf, st))

MaxFidPrefix == 2

FidExplicitUniverse ==
    { NameFid, NameFidUpper, FidCandidate(1), <<"F","I","D","_","2">>, NameId }

FidFieldLists ==
    { [explicit |-> e, prefix |-> n] :
        e \in SUBSET FidExplicitUniverse, n \in 0..MaxFidPrefix }
    \cup
    { [explicit |-> e, prefix |-> n] :
        e \in { {} }, n \in (FidProbeLimit - 2)..(FidProbeLimit - 1) }
    \cup
    { [explicit |-> {NameId, FidCandidate(FidProbeLimit - 2)},
       prefix |-> FidProbeLimit - 2] }

FidIdle ==
    /\ fid_fields = [explicit |-> {}, prefix |-> 0]
    /\ fid = NameFid
    /\ counter = 1
    /\ fid_pc = "idle"

FidInit ==
    /\ fid_fields \in FidFieldLists
    /\ fid = FidProbeStart.fid
    /\ counter = FidProbeStart.counter
    /\ fid_pc = FidProbeStart.pc

FidState == [fid |-> fid, counter |-> counter, pc |-> fid_pc]

FidSetState(st) ==
    /\ fid' = st.fid
    /\ counter' = st.counter
    /\ fid_pc' = st.pc
    /\ UNCHANGED fid_fields

\* the while condition holds: the body runs (and may raise)
FidLoopBody ==
    /\ fid_pc = "probe"
    /\ ProviderHasField(fid_fields, fid)
    /\ FidSetState(FidProbeStep(fid_fields, FidState))
    /\ FidFrame

\* the while condition fails: FID={fid} is appended to the layer options
FidLoopExit ==
    /\ fid_pc = "probe"
    /\ ~ProviderHasField(fid_fields, fid)
    /\ FidSetState(FidProbeStep(fid_fields, FidState))
    /\ FidFrame

NextFid ==
    \/ FidLoopBody
    \/ FidLoopExit

(***************************************************************************)
(* LayerSource.copy.  A directory maps each file name to its content,      *)
(* "absent" for a file that does not exist.  The layer lives in the        *)
(* source directory until a copy repoints it at the target directory.      *)
(***************************************************************************)
file_extension_groups ==
    <<
      << <<".","s","h","p">>,
         <<".","s","h","x">>,
         <<".","d","b","f">>,
         <<".","s","b","x">>,
         <<".","s","b","n">>,
         <<".","s","h","p",".","x","m","l">>,
         <<".","p","r","j">>,
         <<".","c","p","g">>,
         <<".","q","p","j">>,
         <<".","q","i","x">> >>,
      << <<".","t","a","b">>,
         <<".","d","a","t">>,
         <<".","m","a","p">>,
         <<".","x","l","s">>,
         <<".","x","l","s","x">>,
         <<".","i","d">>,
         <<".","i","n","d">>,
         <<".","w","k","s">>,
         <<".","d","b","f">> >>,
      << <<".","p","n","g">>,
         <<".","p","g","w">> >>,
      << <<".","j","p","g">>,
         <<".","j","g","w">> >>,
      << <<".","t","i","f">>,
         <<".","t","f","w">>,
         <<".","w","l","d">> >>
    >>

FileAShp == <<"a",".","s","h","p">>

FileADbf == <<"a",".","d","b","f">>

FileAShpXml == <<"a",".","s","h","p",".","x","m","l">>

FileATfw == <<"a",".","t","f","w">>

FileAGpkg == <<"a",".","g","p","k","g">>

FileBDbf == <<"b",".","d","b","f">>

CopyFileUniverse == { FileAShp, FileADbf, FileAShpXml, FileATfw, FileAGpkg, FileBDbf }

\* os.path.splitext: the extension starts at the last dot that follows a
\* character other than a dot
splitext(filename) ==
    LET dots == { i \in 1..Len(filename) :
                    /\ filename[i] = "."
                    /\ \E j \in 1..(i - 1) : filename[j] # "." }
    IN  IF dots = {} THEN [basename |-> filename, ext |-> <<>>]
        ELSE LET i == CHOOSE d \in dots : \A e \in dots : e <= d
             IN  [basename |-> SubSeq(filename, 1, i - 1),
                  ext |-> SubSeq(filename, i, Len(filename))]

\* the (group, extension) positions of the table whose extension ends the name
ExtensionMatches(filename) ==
    { m \in UNION { { <<g, e>> : e \in 1..Len(file_extension_groups[g]) } :
                    g \in 1..Len(file_extension_groups) } :
        EndsWith(filename, file_extension_groups[m[1]][m[2]]) }

get_file_extension_group(filename) ==
    LET matches == ExtensionMatches(filename)
    IN  IF matches = {}
        THEN [basename |-> splitext(filename).basename,
              group |-> <<splitext(filename).ext>>]
        ELSE LET m == CHOOSE x \in matches : \A y \in matches :
                          \/ x[1] < y[1]
                          \/ x[1] = y[1] /\ x[2] <= y[2]
                 ext == file_extension_groups[m[1]][m[2]]
             IN  [basename |-> SubSeq(filename, 1, Len(filename) - Len(ext)),
                  group |-> file_extension_groups[m[1]]]

\* keep_existent is False or not os.path.isfile(dest_file)
ShouldCopyAlways(keep_existent, dest_isfile) == TRUE

ShouldCopy(keep_existent, dest_isfile) ==
    keep_existent = FALSE \/ ~dest_isfile

\* shutil.copy of each of the files, under the keep_existent guard
CopyOnlyPrimary(src, dst, files, primary, keep_existent) ==
    [f \in DOMAIN dst |->
        IF f = primary /\ ShouldCopy(keep_existent, dst[f] # "absent")
        THEN src[f] ELSE dst[f]]

CopyFiles(src, dst, files, primary, keep_existent) ==
    [f \in DOMAIN dst |->
        IF f \in files /\ ShouldCopy(keep_existent, dst[f] # "absent")
        THEN src[f] ELSE dst[f]]

\* the files the extension-group revision copies: basename + ext for each
\* extension of the group, where that file exists in the layer's directory
GroupFilesToCopy(src, filename) ==
    LET g == get_file_extension_group(filename)
    IN  { f \in DOMAIN src :
            /\ \E i \in 1..Len(g.group) : f = g.basename \o g.group[i]
            /\ src[f] # "absent" }

\* the files the sidecar revision copies: what QgsFileUtils.sidecarFilesForPath
\* reports (existing files only) and the file itself
SidecarFilesToCopy(src, filename, sidecars) ==
    { f \in sidecars : src[f] # "absent" } \cup {filename}

MaxCopyCalls == 2

CopyNoCall ==
    [impl |-> "none", keep_existent |-> FALSE, outcome |-> "none",
     dir |-> "src", files |-> {},
     src_before |-> [f \in CopyFileUniverse |-> "absent"],
     dst_before |-> [f \in CopyFileUniverse |-> "absent"]]

CopyIdle ==
    /\ copy_fs = [d \in {"src", "dst"} |-> [f \in CopyFileUniverse |-> "absent"]]
    /\ copy_layer = [dir |-> "src", filename |-> FileAShp, sidecars |-> {}]
    /\ copy_calls = 0
    /\ copy_last = CopyNoCall

CopyInit ==
    /\ \E existing \in SUBSET CopyFileUniverse,
          old \in { {}, {FileAShp, FileADbf} } :
          copy_fs = [d \in {"src", "dst"} |->
                       [f \in CopyFileUniverse |->
                          IF d = "src"
                          THEN IF f \in existing THEN "v1" ELSE "absent"
                          ELSE IF f \in old THEN "old" ELSE "absent"]]
    /\ \E filename \in { FileAShp, FileADbf, FileATfw, FileAGpkg } :
          \E sidecars \in { {}, {FileADbf}, {FileADbf, FileAShpXml} } :
             copy_layer = [dir |-> "src", filename |-> filename,
                           sidecars |-> sidecars \ {filename}]
    /\ copy_calls = 0
    /\ copy_last = CopyNoCall

\* LayerSource.copy(target_path, copied_files, keep_existent); impl is the
\* revision: "groups" (extension groups) or "sidecars" (sidecarFilesForPath)
CopyCall(impl, keep_existent) ==
    LET src == copy_fs[copy_layer.dir]
        dst == copy_fs["dst"]
        is_file == src[copy_layer.filename] # "absent"
        files == IF impl = "groups"
                 THEN GroupFilesToCopy(src, copy_layer.filename)
                 ELSE SidecarFilesToCopy(src, copy_layer.filename, copy_layer.sidecars)
        same_file == /\ copy_layer.dir = "dst"
                     /\ \E f \in files : ShouldCopy(keep_existent, dst[f] # "absent")
        outcome == IF ~is_file THEN "None"
                   ELSE IF same_file THEN "SameFileError"
                   ELSE "copied_files"
    IN  /\ copy_calls < MaxCopyCalls
        /\ copy_calls' = copy_calls + 1
        /\ copy_last' = [impl |-> impl, keep_existent |-> keep_existent,
                         outcome |-> outcome, dir |-> copy_layer.dir,
                         files |-> files, src_before |-> src, dst_before |-> dst]
        /\ IF outcome = "copied_files"
           THEN /\ copy_fs' = [copy_fs EXCEPT !["dst"] =
                                 CopyFiles(src, dst, files, copy_layer.filename,
                                           keep_existent)]
                /\ copy_layer' = [copy_layer EXCEPT !.dir = "dst"]
           ELSE UNCHANGED <<copy_fs, copy_layer>>

LayerCopy ==
    /\ \E keep_existent \in BOOLEAN : CopyCall("groups", keep_existent)
    /\ CopyFrame

LayerCopySidecars ==
    /\ \E keep_existent \in BOOLEAN : CopyCall("sidecars", keep_existent)
    /\ CopyFrame

\* the source data is edited between two exports
ModifySource ==
    /\ \E f \in CopyFileUniverse : copy_fs["src"][f] = "v1"
    /\ copy_fs' = [copy_fs EXCEPT !["src"] =
                     [f \in CopyFileUniverse |->
                        IF copy_fs["src"][f] = "v1" THEN "v2" ELSE copy_fs["src"][f]]]
    /\ UNCHANGED <<copy_layer, copy_calls, copy_last>>
    /\ CopyFrame

\* convert() reloads the original project: the layer is the source's again
ReopenOriginal ==
    /\ copy_layer.dir = "dst"
    /\ copy_layer' = [copy_layer EXCEPT !.dir = "src"]
    /\ UNCHANGED <<copy_fs, copy_calls, copy_last>>
    /\ CopyFrame

NextCopy ==
    \/ LayerCopy
    \/ LayerCopySidecars
    \/ ModifySource
    \/ ReopenOriginal

(***************************************************************************)
(* PythonMiniOffliner._convert_to_offline_project.  A layer's source is    *)
(* either the remote one, [kind, base, subset] (the physical data source   *)
(* and the row filter the provider folds into its URI), or a table of the  *)
(* GeoPackage, [kind, path, layername, subset].                            *)
(***************************************************************************)
RemoteSource(base, subset) == [kind |-> "remote", base |-> base, subset |-> subset]

GpkgSource(path, layername, subset) ==
    [kind |-> "gpkg", path |-> path, layername |-> layername, subset |-> subset]

\* customProperty("remoteSource") of a layer that has none
NoSource == [kind |-> "none", base |-> "", subset |-> ""]

\* hashlib.sha256(uri.encode()).hexdigest(): one digest per URI
Sha256(uri) == [sha256 |-> uri]

\* layer.dataProvider().dataSourceUri(): the source, row filter included
dataSourceUri(layer) == layer.source

\* layer.setSubsetString(s)
setSubsetString(layer, s) == [layer EXCEPT !.source.subset = s]

OfflineGpkgPath == "data.gpkg"

\* the fields and features the provider of a physical source serves
ProviderFields(base) ==
    IF base = "s1" THEN [explicit |-> {NameId}, prefix |-> 0]
    ELSE [explicit |-> {NameFid, NameId}, prefix |-> 0]

ProviderFeatures(base) ==
    IF base = "s1"
    THEN { [id |-> 1, in_bbox |-> TRUE], [id |-> 2, in_bbox |-> FALSE] }
    ELSE IF base = "s2" THEN { [id |-> 3, in_bbox |-> FALSE] }
    ELSE { [id |-> 4, in_bbox |-> FALSE] }

\* layer.geometryType() is a real geometry type: s1 and s3 hold geometries,
\* s2 is a table without any
HasGeometry(base) == base \in {"s1", "s3"}

\* a set of features in the order of their ids
RECURSIVE FeaturesInOrder(_)
FeaturesInOrder(fs) ==
    IF fs = {} THEN <<>>
    ELSE LET f == CHOOSE x \in fs : \A y \in fs : x.id <= y.id
         IN  <<f>> \o FeaturesInOrder(fs \ {f})

\* a sequence of ids in increasing order
RECURSIVE IdsInOrder(_)
IdsInOrder(ids) ==
    IF ids = {} THEN <<>>
    ELSE LET i == CHOOSE x \in ids : \A y \in ids : x <= y
         IN  <<i>> \o IdsInOrder(ids \ {i})

\* the first loop's filter: a valid vector layer among offline_layers
IsOfflineCandidate(args, layers, id) ==
    /\ layers[id].type = "VectorLayer"
    /\ layers[id].valid
    /\ (args.offline_layers_given => id \in args.offline_layers)

\* datasource_mapping[datasource_hash].append(LayerInfo(layer, subset_string))
MappingAppend(mapping, hash, info) ==
    IF \E i \in 1..Len(mapping) : mapping[i].hash = hash
    THEN [i \in 1..Len(mapping) |->
            IF mapping[i].hash = hash
            THEN [mapping[i] EXCEPT !.layer_infos = Append(@, info)]
            ELSE mapping[i]]
    ELSE Append(mapping, [hash |-> hash, layer_infos |-> <<info>>])

\* the first loop over project.mapLayers().values(), in the order of the ids:
\* the filter is remembered and cleared, then the URI is hashed
RECURSIVE GroupLayers(_, _, _, _)
GroupLayers(args, ids, layers, mapping) ==
    IF ids = <<>> THEN [layers |-> layers, mapping |-> mapping]
    ELSE LET id == Head(ids)
         IN  IF ~IsOfflineCandidate(args, layers, id)
             THEN GroupLayers(args, Tail(ids), layers, mapping)
             ELSE LET subset_string == layers[id].source.subset
                      cleared == setSubsetString(layers[id], "")
                      datasource_hash == Sha256(dataSourceUri(cleared))
                  IN  GroupLayers(args, Tail(ids),
                                  [layers EXCEPT ![id] = cleared],
                                  MappingAppend(mapping, datasource_hash,
                                                [layer |-> id,
                                                 subset_string |-> subset_string]))

\* data_source.CreateLayer(identifier, options=["OVERWRITE=YES", ...]): a
\* table of that name is replaced
CreateLayerInGpkg(tables, table) ==
    { t \in tables : t.name # table.name } \cup {table}

\* create_layer: the table named by the hash of the layer's URI, its key
\* column chosen by the probe; "RuntimeError" when the probe gives up
create_layer(layer, tables) ==
    LET identifier == Sha256(dataSourceUri(layer))
        probe == FidProbeRun(ProviderFields(layer.base), FidProbeStart)
    IN  IF probe.pc = "RuntimeError" THEN [raised |-> TRUE, tables |-> tables]
        ELSE [raised |-> FALSE,
              tables |-> CreateLayerInGpkg(tables,
                            [name |-> identifier,
                             fid |-> probe.fid,
                             fields |-> ProviderFields(layer.base).explicit,
                             spatial |-> layer.spatial,
                             rows |-> <<>>])]

\* the request convert_to_offline_layer iterates with: it replaces the one
\* it is handed by QgsFeatureRequest(), which selects every feature
OfflineLayerRequest(request) == [filter_rect |-> FALSE]

\* layer.dataProvider().getFeatures(request)
getFeatures(layer, request) ==
    FeaturesInOrder({ f \in ProviderFeatures(layer.base) :
                        request.filter_rect => f.in_bbox })

\* convert_to_offline_layer: the features of the layer's provider appended to
\* the table named by the hash of the layer's URI; raises when the GeoPackage
\* holds no such table (the new layer is invalid)
convert_to_offline_layer(layer, tables, request) ==
    LET identifier == Sha256(dataSourceUri(layer))
        features == getFeatures(layer, OfflineLayerRequest(request))
        rows == [i \in 1..Len(features) |-> features[i].id]
    IN  IF ~\E t \in tables : t.name = identifier
        THEN [raised |-> TRUE, tables |-> tables, source |-> layer.source]
        ELSE [raised |-> FALSE,
              tables |-> { IF t.name = identifier
                           THEN [t EXCEPT !.rows = @ \o rows] ELSE t : t \in tables },
              source |-> GpkgSource(OfflineGpkgPath, identifier, "")]

\* the properties read after setDataSource instead of before
update_data_provider_reads_late(layer, id, source) ==
    [layer EXCEPT
        !.props = [isOfflineEditable |-> TRUE,
                   remoteSource |-> source,
                   remoteProvider |-> "ogr",
                   remoteLayerId |-> id],
        !.source = source,
        !.provider = "ogr"]

\* update_data_provider(layer, source), then setSubsetString(subset_string)
update_data_provider(layer, id, source) ==
    [layer EXCEPT
        !.props = [isOfflineEditable |-> TRUE,
                   remoteSource |-> layer.source,
                   remoteProvider |-> layer.provider,
                   remoteLayerId |-> id],
        !.source = source,
        !.provider = "ogr"]

\* the layers of a group that are converted: the first one
GroupLayersToConvertAll(layer_infos) == layer_infos

GroupLayersToConvert(layer_infos) == <<layer_infos[1]>>

\* the layers of a group that are repointed at the table: all of them
GroupLayersToUpdateFirst(layer_infos) == <<layer_infos[1]>>

GroupLayersToUpdate(layer_infos) == layer_infos

RECURSIVE ConvertLayers(_, _, _, _)
\* convert_to_offline_layer over a list of layers of one group
ConvertLayers(infos, layers, tables, request) ==
    IF infos = <<>> THEN [raised |-> FALSE, tables |-> tables, source |-> <<>>]
    ELSE LET r == convert_to_offline_layer(layers[Head(infos).layer], tables, request)
         IN  IF r.raised \/ Len(infos) = 1 THEN r
             ELSE ConvertLayers(Tail(infos), layers, r.tables, request)

RECURSIVE UpdateLayers(_, _, _)
\* update_data_provider and the filter's restoration over a group's layers
UpdateLayers(infos, layers, source) ==
    IF infos = <<>> THEN layers
    ELSE LET info == Head(infos)
             updated == update_data_provider(layers[info.layer], info.layer, source)
         IN  UpdateLayers(Tail(infos),
                          [layers EXCEPT ![info.layer] =
                              setSubsetString(updated, info.subset_string)],
                          source)

\* the custom properties of a layer update_data_provider has not touched
NoOfflineProps ==
    [isOfflineEditable |-> FALSE, remoteSource |-> NoSource,
     remoteProvider |-> "", remoteLayerId |-> 0]

MaxOffLayers == 3

OffLayerIds == 1..MaxOffLayers

OffLayer(type, valid, base, subset) ==
    [type |-> type, valid |-> valid, base |-> base, spatial |-> HasGeometry(base),
     provider |-> "postgres", source |-> RemoteSource(base, subset),
     props |-> NoOfflineProps]

OffLayerChoices ==
    { OffLayer("RasterLayer", TRUE, "s1", ""), OffLayer("VectorLayer", FALSE, "s1", "") }
    \cup { OffLayer("VectorLayer", TRUE, "s1", f) : f \in {"", "f"} }
    \cup { OffLayer("VectorLayer", TRUE, b, "") : b \in {"s2", "s3"} }

OffNoCalls == [create_layer |-> <<>>, convert_to_offline_layer |-> <<>>]

OffIdle ==
    /\ off_args = [offline_layers_given |-> TRUE, offline_layers |-> {}, bbox |-> FALSE]
    /\ off_layers = <<>>
    /\ off_project = [title |-> <<>>, baseName |-> <<>>, OfflineDbPath |-> ""]
    /\ off_pc = "idle"
    /\ datasource_mapping = <<>>
    /\ gpkg = {}
    /\ off_calls = OffNoCalls
    /\ off_original = <<>>

OffInit ==
    /\ off_args \in
          { [offline_layers_given |-> TRUE, offline_layers |-> ids, bbox |-> b] :
               ids \in SUBSET OffLayerIds, b \in BOOLEAN }
          \cup { [offline_layers_given |-> FALSE, offline_layers |-> {}, bbox |-> b] :
                    b \in BOOLEAN }
    /\ off_layers \in [OffLayerIds -> OffLayerChoices]
    /\ off_project \in { [title |-> t, baseName |-> <<"project">>, OfflineDbPath |-> ""] :
                            t \in { <<>>, <<"Title">> } }
    /\ off_pc = "group"
    /\ datasource_mapping = <<>>
    /\ gpkg = {}
    /\ off_calls = OffNoCalls
    /\ off_original = off_layers

\* lines 368-395: the layers are grouped by the hash of their URI
OfflinerGroupLayers ==
    /\ off_pc = "group"
    /\ LET r == GroupLayers(off_args, IdsInOrder(DOMAIN off_layers), off_layers, <<>>)
       IN  /\ off_layers' = r.layers
           /\ datasource_mapping' = r.mapping
    /\ off_pc' = "create"
    /\ UNCHANGED <<off_args, off_project, gpkg, off_calls>>
    /\ OffFrame

\* the group the create loop stands at: one call was logged per group done
OffCreateIndex == Len(off_calls.create_layer) + 1

\* lines 397-399: create_layer on the first layer of the next group
OfflinerCreateLayer ==
    /\ off_pc = "create"
    /\ OffCreateIndex <= Len(datasource_mapping)
    /\ LET group == datasource_mapping[OffCreateIndex]
           layer_to_offline == group.layer_infos[1].layer
           r == create_layer(off_layers[layer_to_offline], gpkg)
       IN  /\ off_calls' = [off_calls EXCEPT !.create_layer =
                              Append(@, [hash |-> group.hash, layer |-> layer_to_offline])]
           /\ gpkg' = r.tables
           /\ off_pc' = IF r.raised THEN "RuntimeError" ELSE "create"
    /\ UNCHANGED <<off_args, off_layers, off_project, datasource_mapping>>
    /\ OffFrame

\* lines 243-248: ogr_layer.CreateField reports an error for some field
OfflinerCreateFieldFails ==
    /\ off_pc = "create"
    /\ OffCreateIndex <= Len(datasource_mapping)
    /\ LET group == datasource_mapping[OffCreateIndex]
           layer_to_offline == group.layer_infos[1].layer
           r == create_layer(off_layers[layer_to_offline], gpkg)
       IN  /\ off_calls' = [off_calls EXCEPT !.create_layer =
                              Append(@, [hash |-> group.hash, layer |-> layer_to_offline])]
           /\ gpkg' = r.tables
    /\ off_pc' = "RuntimeError"
    /\ UNCHANGED <<off_args, off_layers, off_project, datasource_mapping>>
    /\ OffFrame

\* every group has its table: the second loop starts
OfflinerCreateDone ==
    /\ off_pc = "create"
    /\ OffCreateIndex > Len(datasource_mapping)
    /\ off_pc' = "convert"
    /\ UNCHANGED <<off_args, off_layers, off_project, datasource_mapping, gpkg,
                   off_calls>>
    /\ OffFrame

\* the groups the second loop has done: those whose first layer was updated
OffConvertIndex ==
    Cardinality({ i \in 1..Len(datasource_mapping) :
                    off_layers[datasource_mapping[i].layer_infos[1].layer]
                       .props.isOfflineEditable }) + 1

\* lines 401-438: one group's features are copied and its layers repointed
OfflinerConvertGroup ==
    /\ off_pc = "convert"
    /\ OffConvertIndex <= Len(datasource_mapping)
    /\ LET group == datasource_mapping[OffConvertIndex]
           layer_to_offline == off_layers[group.layer_infos[1].layer]
           request == [filter_rect |-> off_args.bbox /\ layer_to_offline.spatial]
           to_convert == GroupLayersToConvert(group.layer_infos)
           r == ConvertLayers(to_convert, off_layers, gpkg, request)
       IN  /\ off_calls' = [off_calls EXCEPT !.convert_to_offline_layer =
                              @ \o [i \in 1..Len(to_convert) |->
                                      [hash |-> group.hash,
                                       layer |-> to_convert[i].layer]]]
           /\ gpkg' = r.tables
           /\ IF r.raised
              THEN /\ off_pc' = "RuntimeError"
                   /\ UNCHANGED off_layers
              ELSE /\ off_pc' = "convert"
                   /\ off_layers' = UpdateLayers(GroupLayersToUpdate(group.layer_infos),
                                                 off_layers, r.source)
    /\ UNCHANGED <<off_args, off_project, datasource_mapping>>
    /\ OffFrame

\* lines 440-450: the title and the OfflineDbPath entry are written
OfflinerFinish ==
    /\ off_pc = "convert"
    /\ OffConvertIndex > Len(datasource_mapping)
    /\ LET project_title == IF off_project.title # <<>> THEN off_project.title
                            ELSE off_project.baseName
       IN  off_project' = [off_project EXCEPT
                              !.title = project_title \o project_title \o <<" (offline)">>,
                              !.OfflineDbPath = OfflineGpkgPath]
    /\ off_pc' = "done"
    /\ UNCHANGED <<off_args, off_layers, datasource_mapping, gpkg, off_calls>>
    /\ OffFrame

NextOffliner ==
    \/ OfflinerGroupLayers
    \/ OfflinerCreateLayer
    \/ OfflinerCreateFieldFails
    \/ OfflinerCreateDone
    \/ OfflinerConvertGroup
    \/ OfflinerFinish

(***************************************************************************)
(* LayerSource: the properties that classify a layer.  A layer is a record *)
(* of what they read: its type, validity, provider, source string, whether *)
(* os.path.isfile finds its file, whether its path resolves to a localized *)
(* one, readOnly(), and the persisted QFieldSync/action and                *)
(* QFieldSync/cloud_action ("None" when the property is absent).           *)
(***************************************************************************)
OFFLINE == "offline"
NO_ACTION == "no_action"
COPY == "copy"
KEEP_EXISTENT == "keep_existent"
REMOVE == "remove"

SuffixEcw == <<"e", "c", "w">>

UriEcw == <<"r", ".", "e", "c", "w">>
UriTif == <<"r", ".", "t", "i", "f">>
UriGpkg == <<"v", ".", "g", "p", "k", "g">>
UriDb == <<"d", "b">>
UriWms == <<"u", "r", "l">>

is_virtual(layer) == layer.provider = "virtual"

is_file(layer) == layer.is_file

is_localized_path(layer) == layer.localized

is_supported(layer) == ~EndsWith(layer.uri, SuffixEcw)

is_remote_raster_layer(layer) == layer.provider = "wms"

default_action(layer) ==
    IF is_virtual(layer) THEN NO_ACTION
    ELSE IF is_file(layer) THEN COPY
    ELSE IF ~is_supported(layer) THEN REMOVE
    ELSE IF layer.provider = "postgres" THEN OFFLINE
    ELSE NO_ACTION

action(layer) == IF layer.action = "None" THEN default_action(layer) ELSE layer.action

available_cloud_actions(layer) ==
    IF is_virtual(layer) \/ is_localized_path(layer)
    THEN <<NO_ACTION, REMOVE>>
    ELSE (IF layer.type = "VectorLayer"
          THEN <<OFFLINE>> \o (IF ~is_file(layer) \/ layer.read_only
                               THEN <<NO_ACTION>> ELSE <<>>)
          ELSE <<NO_ACTION>>)
         \o <<REMOVE>>

default_cloud_action_last(layer) ==
    available_cloud_actions(layer)[Len(available_cloud_actions(layer))]

default_cloud_action(layer) == available_cloud_actions(layer)[1]

cloud_action(layer) ==
    IF layer.cloud_action = "None" THEN default_cloud_action(layer)
    ELSE layer.cloud_action

\* the providers of the layers asked, each with the layer type it serves,
\* a source string, and whether its sources are paths
LsProviders ==
    { [provider |-> "virtual", type |-> "VectorLayer", paths |-> FALSE, uri |-> UriDb],
      [provider |-> "postgres", type |-> "VectorLayer", paths |-> FALSE, uri |-> UriDb],
      [provider |-> "ogr", type |-> "VectorLayer", paths |-> TRUE, uri |-> UriGpkg],
      [provider |-> "gdal", type |-> "RasterLayer", paths |-> TRUE, uri |-> UriTif],
      [provider |-> "gdal", type |-> "RasterLayer", paths |-> TRUE, uri |-> UriEcw],
      [provider |-> "wms", type |-> "RasterLayer", paths |-> FALSE, uri |-> UriWms] }

LsPersisted == {"None", OFFLINE, NO_ACTION, REMOVE}

\* only a path can be a file; a path or the url of a web raster can point
\* into the localized data; only a vector layer is made read-only
LsLayers ==
    { l \in { [type |-> p.type, provider |-> p.provider, uri |-> p.uri,
               paths |-> p.paths, valid |-> v, is_file |-> f, localized |-> lo,
               read_only |-> ro, action |-> a, cloud_action |-> ca] :
                 p \in LsProviders, v \in BOOLEAN, f \in BOOLEAN, lo \in BOOLEAN,
                 ro \in BOOLEAN, a \in LsPersisted, ca \in LsPersisted } :
        /\ l.is_file => l.paths
        /\ l.localized => (l.paths \/ l.provider = "wms")
        /\ l.read_only => l.type = "VectorLayer" }

LsNoResult == [call |-> "none", ret |-> <<>>]

LsIdle ==
    /\ ls_layer = [type |-> "RasterLayer", provider |-> "wms", uri |-> UriWms,
                   paths |-> FALSE, valid |-> TRUE, is_file |-> FALSE,
                   localized |-> FALSE, read_only |-> FALSE,
                   action |-> "None", cloud_action |-> "None"]
    /\ ls_result = LsNoResult

LsInit ==
    /\ ls_layer \in LsLayers
    /\ ls_result = LsNoResult

\* layer_source.action
ReadAction ==
    /\ ls_result' = [call |-> "action", ret |-> <<action(ls_layer)>>]
    /\ UNCHANGED ls_layer
    /\ LsFrame

\* layer_source.cloud_action
ReadCloudAction ==
    /\ ls_result' = [call |-> "cloud_action", ret |-> <<cloud_action(ls_layer)>>]
    /\ UNCHANGED ls_layer
    /\ LsFrame

\* layer_source.available_cloud_actions
ReadAvailableCloudActions ==
    /\ ls_result' = [call |-> "available_cloud_actions",
                     ret |-> available_cloud_actions(ls_layer)]
    /\ UNCHANGED ls_layer
    /\ LsFrame

package_prevention_reasons_no_raster(layer) ==
    (IF ~is_supported(layer) THEN <<"UNSUPPORTED_DATASOURCE">> ELSE <<>>)
    \o (IF ~layer.valid /\ is_localized_path(layer) THEN <<"LOCALIZED_PATH">>
        ELSE IF ~layer.valid THEN <<"INVALID">>
        ELSE <<>>)

\* LayerSource.package_prevention_reasons
package_prevention_reasons(layer) ==
    (IF ~is_supported(layer) THEN <<"UNSUPPORTED_DATASOURCE">> ELSE <<>>)
    \o (IF ~layer.valid /\ is_localized_path(layer) THEN <<"LOCALIZED_PATH">>
        ELSE IF ~layer.valid /\ is_remote_raster_layer(layer)
        THEN <<"INVALID_REMOTE_RASTER_LAYER">>
        ELSE IF ~layer.valid THEN <<"INVALID">>
        ELSE <<>>)

\* layer_source.package_prevention_reasons
ReadPackagePreventionReasons ==
    /\ ls_result' = [call |-> "package_prevention_reasons",
                     ret |-> package_prevention_reasons(ls_layer)]
    /\ UNCHANGED ls_layer
    /\ LsFrame

NextLayer ==
    \/ ReadAction
    \/ ReadCloudAction
    \/ ReadAvailableCloudActions
    \/ ReadPackagePreventionReasons

(***************************************************************************)
(* OfflineConverter: construction, convert() and cancel().  The project's  *)
(* layers are records as above with the attributes the converter reads;    *)
(* a removed layer stays in the record with present = FALSE.               *)
(***************************************************************************)
OriginalFileName == "original.qgs"

ExportFileName == "export/project.qgs"

NameA == <<"a">>
NameB == <<"b">>

\* a file-based source, before and after LayerSource.copy moved it
FileSource(base) == [kind |-> "file", base |-> base, subset |-> ""]

\* __init__: the empty file name is refused first, then the offliner's
\* signals are connected, then the area of interest is asserted
OfflineConverterInitConnectsFirst(args) ==
    IF args.export_filename = ""
    THEN [pc |-> "ctor_raised", outcome |-> "PackagingFailedError", signals |-> TRUE]
    ELSE IF args.config # "plain" /\ ~args.aoi_valid
    THEN [pc |-> "ctor_raised", outcome |-> "AssertionError", signals |-> TRUE]
    ELSE [pc |-> "ready", outcome |-> "none", signals |-> TRUE]

OfflineConverterInit(args) ==
    IF args.export_filename = ""
    THEN [pc |-> "ctor_raised", outcome |-> "PackagingFailedError", signals |-> FALSE]
    ELSE IF args.config # "plain" /\ ~args.aoi_valid
    THEN [pc |-> "ctor_raised", outcome |-> "AssertionError", signals |-> TRUE]
    ELSE [pc |-> "ready", outcome |-> "none", signals |-> TRUE]

\* project.mapLayers(): the layers still in the project
PresentIds(layers) == { id \in DOMAIN layers : layers[id].present }

REASONS_TO_REMOVE_LAYER == {"INVALID", "UNSUPPORTED_DATASOURCE"}

RemovedForAnyReason(reasons) == reasons # <<>>

\* the loop over the reasons: the layer is removed at the first one that
\* asks for it
RemovedForReasons(reasons) ==
    \E i \in 1..Len(reasons) : reasons[i] \in REASONS_TO_REMOVE_LAYER

\* the LayerData snapshot of a layer
LayerData(layer, id) ==
    [id |-> id, name |-> layer.name, type |-> layer.type, source |-> layer.source,
     field_names |-> { layer.fields[i].name : i \in 1..Len(layer.fields) },
     value_relation |-> layer.widget]

LayerActionAsConfigured(layer, export_type) ==
    IF export_type = "Cable" THEN action(layer) ELSE cloud_action(layer)

\* layer_source.action, or cloud_action; NO_ACTION for a cloud layer without
\* a usable primary key
LayerAction(layer, export_type) ==
    IF /\ layer.valid
       /\ layer.type = "VectorLayer"
       /\ pk_attr_name(layer) = NameEmpty
       /\ export_type = "Cloud"
    THEN NO_ACTION
    ELSE IF export_type = "Cable" THEN action(layer) ELSE cloud_action(layer)

\* the custom properties the layer loop sets before its checkpoint
CollectedLayer(layer, id, export_type) ==
    LET pk == pk_attr_name(layer)
        vector == layer.valid /\ layer.type = "VectorLayer"
    IN  [layer EXCEPT
            !.qfs = [remoteLayerId |-> id,
                     sourceDataPrimaryKeys |->
                         IF vector /\ pk # NameEmpty THEN pk
                         ELSE @.sourceDataPrimaryKeys,
                     unsupported_source_pk |->
                         \/ @.unsupported_source_pk
                         \/ vector /\ pk = NameEmpty /\ export_type = "Cloud"],
            !.read_only = @ \/ (vector /\ pk = NameEmpty /\ export_type = "Cloud")]

\* LayerSource.copy as the layer loop uses it: None for a layer that is not
\* file based, else the files go to the export directory, the layer is
\* pointed at them and copied_files comes back
LayerSourceCopy(layer, copied_files) ==
    IF ~layer.is_file
    THEN [ret |-> "None", copied |-> FALSE, layer |-> layer]
    ELSE [ret |-> copied_files, copied |-> TRUE,
          layer |-> [layer EXCEPT !.source.kind = "file_exported"]]

RECURSIVE CreateAllLayers(_, _, _)
\* lines 397-399 of the offliner, over all groups
CreateAllLayers(mapping, layers, tables) ==
    IF mapping = <<>> THEN [raised |-> FALSE, tables |-> tables]
    ELSE LET r == create_layer(layers[Head(mapping).layer_infos[1].layer], tables)
         IN  IF r.raised THEN r
             ELSE CreateAllLayers(Tail(mapping), layers, r.tables)

RECURSIVE ConvertAllGroups(_, _, _, _)
\* lines 401-438 of the offliner, over all groups
ConvertAllGroups(mapping, layers, tables, bbox) ==
    IF mapping = <<>> THEN [raised |-> FALSE, layers |-> layers, tables |-> tables]
    ELSE LET group == Head(mapping)
             layer_to_offline == layers[group.layer_infos[1].layer]
             request == [filter_rect |-> bbox /\ layer_to_offline.spatial]
             r == ConvertLayers(GroupLayersToConvert(group.layer_infos), layers,
                                tables, request)
         IN  IF r.raised
             THEN [raised |-> TRUE, layers |-> layers, tables |-> r.tables]
             ELSE ConvertAllGroups(Tail(mapping),
                                   UpdateLayers(GroupLayersToUpdate(group.layer_infos),
                                                layers, r.source),
                                   r.tables, bbox)

\* project_title += f"{project_title} (offline)"
OfflineTitle(title, baseName) ==
    LET project_title == IF title # <<>> THEN title ELSE baseName
    IN  project_title \o project_title \o <<" (offline)">>

\* PythonMiniOffliner._convert_to_offline_project on the layers present
convert_to_offline_project(args, layers) ==
    LET present == [id \in PresentIds(layers) |-> layers[id]]
        g == GroupLayers(args, IdsInOrder(DOMAIN present), present, <<>>)
        c == CreateAllLayers(g.mapping, g.layers, {})
        r == IF c.raised
             THEN [raised |-> TRUE, layers |-> g.layers, tables |-> c.tables]
             ELSE ConvertAllGroups(g.mapping, g.layers, c.tables, args.bbox)
    IN  [raised |-> r.raised,
         tables |-> r.tables,
         layers |-> [id \in DOMAIN layers |->
                        IF id \in DOMAIN r.layers THEN r.layers[id] ELSE layers[id]]]

\* the loop of post_process_value_relation_fields: the first layer of the
\* project whose remoteSource is the referenced layer's source or whose name
\* is its name; 0 when there is none
FindReferencedLayer(layers, o_layer_data) ==
    FirstIndex({ id \in PresentIds(layers) :
                   \/ layers[id].props.remoteSource = o_layer_data.source
                   \/ layers[id].name = o_layer_data.name })

\* QgsValueRelationFieldFormatter.resolveLayer on a configuration that holds
\* the layer id: the layer of that id, 0 when the project has none
resolveLayer(layers, layer_id) ==
    IF layer_id \in PresentIds(layers) THEN layer_id ELSE 0

\* warning.emit("Bad attribute form configuration", ...) for the field of a
\* layer, and warning.emit("QFieldSync", ...) for a layer without snapshot
FieldWarning(e_id) == [about |-> "field", layer |-> e_id]

LayerWarning(e_id) == [about |-> "layer", layer |-> e_id]

post_process_value_relation_fields_silent(layers, layer_data_by_id, e_id, o_layer_id) ==
    LET e_referenced_layer_id ==
            IF o_layer_id \in DOMAIN layer_data_by_id
            THEN FindReferencedLayer(layers, layer_data_by_id[o_layer_id])
            ELSE 0
    IN  IF e_referenced_layer_id = 0 THEN [layers |-> layers, warnings |-> <<>>]
        ELSE [layers |-> [layers EXCEPT ![e_id].widget = e_referenced_layer_id],
              warnings |-> <<>>]

\* post_process_value_relation_fields(e_layer, o_field): the layers after it
\* and the warnings emitted
post_process_value_relation_fields(layers, layer_data_by_id, e_id, o_layer_id) ==
    LET first_id == o_layer_id
        e_referenced_layer == resolveLayer(layers, first_id)
        o_referenced_layer_id ==
            IF first_id \in DOMAIN layer_data_by_id THEN first_id
            ELSE IF e_referenced_layer # 0
                 THEN layers[e_referenced_layer].props.remoteLayerId
                 ELSE first_id
    IN  IF o_referenced_layer_id \notin DOMAIN layer_data_by_id
        THEN [layers |-> layers, warnings |-> <<FieldWarning(e_id)>>]
        ELSE LET e_referenced_layer_id ==
                     FindReferencedLayer(layers, layer_data_by_id[o_referenced_layer_id])
             IN  IF e_referenced_layer_id = 0
                 THEN [layers |-> layers, warnings |-> <<FieldWarning(e_id)>>]
                 ELSE [layers |-> [layers EXCEPT ![e_id].widget = e_referenced_layer_id],
                       warnings |-> <<>>]

\* post_process_fields(e_layer): the key column the GeoPackage added is
\* hidden, a field with a value-relation widget is rewired
post_process_fields(layers, layer_data_by_id, e_id) ==
    LET o_layer_data == layer_data_by_id[layers[e_id].qfs.remoteLayerId]
        hidden == IF layers[e_id].source.kind = "gpkg"
                  THEN [layers EXCEPT ![e_id].fid_widget = "Hidden"]
                  ELSE layers
    IN  IF o_layer_data.value_relation = 0
        THEN [layers |-> hidden, warnings |-> <<>>]
        ELSE post_process_value_relation_fields(hidden, layer_data_by_id, e_id,
                                                o_layer_data.value_relation)

RECURSIVE PostProcessLayers(_, _, _, _)
\* the loop of post_process_offline_layers over the project's layers
PostProcessLayers(ids, layers, layer_data_by_id, warnings) ==
    IF ids = <<>> THEN [layers |-> layers, warnings |-> warnings]
    ELSE LET e_id == Head(ids)
             remote_layer_id == layers[e_id].qfs.remoteLayerId
         IN  IF layers[e_id].type # "VectorLayer"
             THEN PostProcessLayers(Tail(ids), layers, layer_data_by_id, warnings)
             ELSE IF \/ remote_layer_id = 0
                     \/ remote_layer_id \notin DOMAIN layer_data_by_id
             THEN PostProcessLayers(Tail(ids), layers, layer_data_by_id,
                                    Append(warnings, LayerWarning(e_id)))
             ELSE LET r == post_process_fields(layers, layer_data_by_id, e_id)
                  IN  PostProcessLayers(Tail(ids), r.layers, layer_data_by_id,
                                        warnings \o r.warnings)

post_process_offline_layers(layers, layer_data_by_id) ==
    PostProcessLayers(IdsInOrder(PresentIds(layers)), layers, layer_data_by_id, <<>>)

\* open_project(filename, filename_to_read): the project is read from
\* filename_to_read and then named filename
open_project_keeps_read_name(filename, filename_to_read, stored) ==
    [fileName |-> filename_to_read, title |-> stored.title,
     offline_flags |-> FALSE, symbols_relative |-> FALSE]

open_project(filename, filename_to_read, stored) ==
    [fileName |-> filename, title |-> stored.title,
     offline_flags |-> FALSE, symbols_relative |-> FALSE]

\* the condition of the finally clause of convert()
ReloadsOnSuccessOnly(reload_original_project, outcome) ==
    reload_original_project /\ outcome = "returned"

ReloadsInFinally(reload_original_project, outcome) == reload_original_project

MaxConvLayers == 2

\* convert() is called at most that many times on one converter
MaxRuns == 2

ConvLayerIds == 1..MaxConvLayers

\* a project layer: kind names what the layer is configured as
ConvLayer(kind, name, base, subset, ref) ==
    [type |-> IF kind \in {"web", "unsupported", "remote_raster"} THEN "RasterLayer"
              ELSE "VectorLayer",
     valid |-> kind \notin {"invalid", "localized", "remote_raster"},
     uri |-> IF kind = "unsupported" THEN UriEcw
             ELSE IF kind \in {"copy", "keep", "localized"} THEN UriGpkg
             ELSE IF kind \in {"web", "remote_raster"} THEN UriWms
             ELSE UriDb,
     localized |-> kind = "localized",
     name |-> name,
     base |-> base,
     spatial |-> HasGeometry(base),
     provider |-> IF kind \in {"copy", "keep", "localized"} THEN "ogr"
                  ELSE IF kind \in {"web", "remote_raster"} THEN "wms"
                  ELSE IF kind = "unsupported" THEN "gdal"
                  ELSE "postgres",
     source |-> IF kind \in {"copy", "keep"} THEN FileSource(base)
                ELSE RemoteSource(base, subset),
     is_file |-> kind \in {"copy", "keep"},
     fields |-> <<[name |-> NameId, alias |-> NameEmpty]>>,
     pk_indexes |-> IF kind = "offline_nopk" THEN <<>> ELSE <<1>>,
     action |-> IF kind = "remove" THEN REMOVE
                ELSE IF kind = "keep" THEN KEEP_EXISTENT
                ELSE "None",
     cloud_action |-> IF kind = "remove" THEN REMOVE ELSE "None",
     props |-> NoOfflineProps,
     qfs |-> [remoteLayerId |-> 0, sourceDataPrimaryKeys |-> NameEmpty,
              unsupported_source_pk |-> FALSE],
     read_only |-> FALSE,
     present |-> TRUE,
     widget |-> ref,
     fid_widget |-> "TextEdit"]

\* what a layer of the project is: a PostgreSQL table with or without a
\* usable key, a file to copy or to keep, a layer to remove, a web raster,
\* or a layer that cannot be packaged
ConvLayerKinds ==
    {"offline", "offline_nopk", "copy", "keep", "remove", "web",
     "invalid", "localized", "unsupported", "remote_raster"}

\* the kind of the layers past the second: a table
ConvPlainKinds == {"offline"}

\* the projects of Spec: every layer has its own name and source, no field
\* has a value relation
ConvProjects ==
    { [id \in ConvLayerIds |->
          ConvLayer(k[id], IF id = 1 THEN NameA ELSE NameB,
                    IF id = 1 THEN "s1" ELSE "s2", "", 0)] :
      k \in { f \in [ConvLayerIds -> ConvLayerKinds] :
                \A id \in ConvLayerIds : id > 2 => f[id] \in ConvPlainKinds } }

\* the projects of SpecLinker: layers that are taken offline, copied or
\* removed, or that are invalid, with names and sources that may coincide
\* and value relations between them
LinkerLayerChoices ==
    { l \in { ConvLayer(kind, name, src.base, src.subset, ref) :
                kind \in {"offline", "copy", "remove", "invalid"},
                name \in {NameA, NameB},
                src \in { [base |-> "s1", subset |-> ""],
                          [base |-> "s1", subset |-> "f"],
                          [base |-> "s2", subset |-> ""] },
                ref \in 0..MaxConvLayers } :
        l.is_file => l.source.subset = "" }

\* the layers past the second are one table without a value relation
LinkerPlainLayer == ConvLayer("offline", NameB, "s2", "", 0)

LinkerProjects ==
    { [id \in ConvLayerIds |-> IF id \in DOMAIN p THEN p[id] ELSE LinkerPlainLayer] :
        p \in [{ id \in ConvLayerIds : id <= 2 } -> LinkerLayerChoices] }

\* the dirs_to_copy items of a run: should_copy of each directory
ConvDirChoices == { <<>>, <<FALSE, TRUE>> }

ConvArgs ==
    { [export_filename |-> f, config |-> c.config, aoi_valid |-> c.aoi_valid,
       export_type |-> t, reload_original_project |-> r, dirs |-> d] :
        f \in {"", ExportFileName},
        c \in { [config |-> "plain", aoi_valid |-> TRUE],
                [config |-> "aoi", aoi_valid |-> TRUE],
                [config |-> "aoi", aoi_valid |-> FALSE],
                [config |-> "basemap", aoi_valid |-> TRUE] },
        t \in {"Cable", "Cloud"},
        r \in BOOLEAN,
        d \in ConvDirChoices }

\* the projects and arguments of SpecCancel: two layers that are taken
\* offline, copied, removed as unsupported or left out as invalid
CancelProjects ==
    { [id \in ConvLayerIds |->
          ConvLayer(IF id <= 2 THEN k[id] ELSE "offline",
                    IF id = 1 THEN NameA ELSE NameB,
                    IF id = 1 THEN "s1" ELSE "s2", "", 0)] :
      k \in [{ id \in ConvLayerIds : id <= 2 } ->
                {"offline", "copy", "unsupported", "invalid"}] }

CancelArgs ==
    { [export_filename |-> ExportFileName, config |-> "plain", aoi_valid |-> TRUE,
       export_type |-> "Cable", reload_original_project |-> r, dirs |-> <<>>] :
        r \in BOOLEAN }

LinkerArgs ==
    { [export_filename |-> ExportFileName, config |-> "plain", aoi_valid |-> TRUE,
       export_type |-> "Cable", reload_original_project |-> r, dirs |-> <<>>] :
        r \in BOOLEAN }

EmptyDisk ==
    [backup |-> FALSE, export_dir |-> FALSE, basemap |-> FALSE, project |-> "absent",
     layer_files |-> {}, attachments |-> {}, gpkg |-> {}]

OriginalProject ==
    [fileName |-> OriginalFileName, title |-> <<"Title">>,
     offline_flags |-> FALSE, symbols_relative |-> FALSE]

NoLocals ==
    [i |-> 1, layer_action |-> "", offline_layers |-> <<>>, copied_files |-> "list",
     post_processed |-> FALSE]

FirstRun == [n |-> 1, canceled_at_start |-> FALSE]

CvIdle ==
    /\ cv_args = [export_filename |-> "", config |-> "plain", aoi_valid |-> TRUE,
                  export_type |-> "Cable", reload_original_project |-> TRUE,
                  dirs |-> <<>>]
    /\ cv_pc = "idle"
    /\ cv_outcome = "none"
    /\ cv_signals = FALSE
    /\ cv_is_canceled = FALSE
    /\ cv_project = OriginalProject
    /\ cv_layers = <<>>
    /\ cv_backup = <<>>
    /\ cv_disk = EmptyDisk
    /\ cv_locals = NoLocals
    /\ cv_layer_data_by_id = <<>>
    /\ cv_calls = <<>>
    /\ cv_run = FirstRun

CvInitWith(args, projects) ==
    /\ cv_args \in args
    /\ cv_pc = "new"
    /\ cv_outcome = "none"
    /\ cv_signals = FALSE
    /\ cv_is_canceled = FALSE
    /\ cv_project = OriginalProject
    /\ cv_layers \in projects
    /\ cv_backup = <<>>
    /\ cv_disk = EmptyDisk
    /\ cv_locals = NoLocals
    /\ cv_layer_data_by_id = <<>>
    /\ cv_calls = <<>>
    /\ cv_run = FirstRun

CvInit == CvInitWith(ConvArgs, ConvProjects)

CvInitLinker == CvInitWith(LinkerArgs, LinkerProjects)

CvInitCancel == CvInitWith(CancelArgs, CancelProjects)

\* one call of _convert: what is called, on which layer (0 for none), at
\* which checkpoint, with which keep_existent and which list of layers
Call(op, layer, at, keep_existent, layers) ==
    [op |-> op, layer |-> layer, at |-> at, keep_existent |-> keep_existent,
     layers |-> layers]

CheckCanceled(at, layer) == Call("_check_canceled", layer, at, FALSE, <<>>)

CheckCanceledReturnsAlways(is_canceled) == TRUE

\* _check_canceled() returns, instead of raising PackagingCanceledError
CheckCanceledReturns(is_canceled) == ~is_canceled

\* lines 271-288: project.removeMapLayer at the first reason that asks for it
PreventedLayerCalls(id, reasons) ==
    IF RemovedForReasons(reasons)
    THEN <<Call("removeMapLayer", id, "", FALSE, <<>>)>>
    ELSE <<>>

LayerActionCallsNoActionSkips(id, layer_action) ==
    <<CheckCanceled("layer", id)>> \o
    (IF layer_action = OFFLINE
     THEN <<Call("offline_layers.append", id, "", FALSE, <<>>)>>
     ELSE IF layer_action = COPY
     THEN <<Call("copy", id, "", FALSE, <<>>)>>
     ELSE IF layer_action = KEEP_EXISTENT
     THEN <<Call("copy", id, "", TRUE, <<>>)>>
     ELSE IF layer_action = REMOVE
     THEN <<Call("removeMapLayer", id, "", FALSE, <<>>)>>
     ELSE <<>>)

\* lines 328-341: the checkpoint, then the branch of layer_action
LayerActionCalls(id, layer_action) ==
    <<CheckCanceled("layer", id)>> \o
    (IF layer_action = OFFLINE
     THEN <<Call("offline_layers.append", id, "", FALSE, <<>>)>>
     ELSE IF layer_action \in {COPY, NO_ACTION}
     THEN <<Call("copy", id, "", FALSE, <<>>)>>
     ELSE IF layer_action = KEEP_EXISTENT
     THEN <<Call("copy", id, "", TRUE, <<>>)>>
     ELSE IF layer_action = REMOVE
     THEN <<Call("removeMapLayer", id, "", FALSE, <<>>)>>
     ELSE <<>>)

ConvertToOfflineCallsPerLayer(offline_layers) ==
    <<CheckCanceled("395", 0)>> \o
    [i \in 1..Len(offline_layers) |->
        Call("convert_to_offline", 0, "", FALSE, <<offline_layers[i]>>)]

\* lines 395-402: the checkpoint, then the offliner
ConvertToOfflineCalls(offline_layers) ==
    <<CheckCanceled("395", 0),
      Call("convert_to_offline", 0, "", FALSE, offline_layers)>>

\* OfflineConverter(...)
ConverterInit ==
    /\ cv_pc = "new"
    /\ LET r == OfflineConverterInit(cv_args)
       IN  /\ cv_pc' = r.pc
           /\ cv_outcome' = r.outcome
           /\ cv_signals' = r.signals
    /\ UNCHANGED <<cv_args, cv_is_canceled, cv_project, cv_layers, cv_backup, cv_disk,
                   cv_locals, cv_layer_data_by_id>>
    /\ UNCHANGED cv_calls
    /\ CvFrame

\* cancel(), from the dialog, at any moment of the converter's life
Cancel ==
    /\ cv_pc \notin {"idle", "new", "ctor_raised"}
    /\ ~cv_is_canceled
    /\ cv_is_canceled' = TRUE
    /\ UNCHANGED <<cv_args, cv_pc, cv_outcome, cv_signals, cv_project, cv_layers,
                   cv_backup, cv_disk, cv_locals, cv_layer_data_by_id>>
    /\ UNCHANGED cv_calls
    /\ CvFrame

\* convert(), up to the layer loop of _convert: the backup is written, the
\* export directory made and the base map exported where configured
ConvertBegin ==
    /\ cv_pc = "ready"
    /\ cv_backup' = [project |-> cv_project, layers |-> cv_layers]
    /\ \E basemap_ok \in BOOLEAN :
          /\ (cv_args.config # "basemap" => ~basemap_ok)
          /\ cv_disk' = [cv_disk EXCEPT !.backup = TRUE, !.export_dir = TRUE,
                                        !.basemap = basemap_ok]
    /\ cv_locals' = NoLocals
    /\ cv_pc' = "layers"
    /\ UNCHANGED <<cv_args, cv_outcome, cv_signals, cv_is_canceled, cv_project,
                   cv_layers, cv_layer_data_by_id>>
    /\ UNCHANGED cv_calls
    /\ CvFrame

\* one turn of the layer loop up to its checkpoint (lines 268-326): a layer
\* that cannot be packaged is removed or skipped, any other is recorded
CollectLayer ==
    /\ cv_pc = "layers"
    /\ cv_locals.i <= MaxConvLayers
    /\ cv_layers[cv_locals.i].present
    /\ LET id == cv_locals.i
           layer == cv_layers[id]
           reasons == package_prevention_reasons(layer)
       IN  IF reasons # <<>>
           THEN /\ cv_layers' = IF RemovedForReasons(reasons)
                                THEN [cv_layers EXCEPT ![id].present = FALSE]
                                ELSE cv_layers
                /\ cv_locals' = [cv_locals EXCEPT !.i = @ + 1]
                /\ UNCHANGED <<cv_pc, cv_layer_data_by_id>>
           ELSE /\ cv_layer_data_by_id' =
                      [d \in DOMAIN cv_layer_data_by_id \cup {id} |->
                          IF d = id THEN LayerData(layer, id)
                          ELSE cv_layer_data_by_id[d]]
                /\ cv_layers' = [cv_layers EXCEPT ![id] =
                                    CollectedLayer(layer, id, cv_args.export_type)]
                /\ cv_locals' = [cv_locals EXCEPT !.layer_action =
                                    LayerAction(layer, cv_args.export_type)]
                /\ cv_pc' = "layer_check"
    /\ UNCHANGED <<cv_args, cv_outcome, cv_signals, cv_is_canceled, cv_project,
                   cv_backup, cv_disk>>
    /\ cv_calls' = cv_calls \o PreventedLayerCalls(cv_locals.i,
                      package_prevention_reasons(cv_layers[cv_locals.i]))
    /\ CvFrame

\* the rest of the turn (lines 328-341), past the checkpoint
DispatchLayer ==
    /\ cv_pc = "layer_check"
    /\ CheckCanceledReturns(cv_is_canceled)
    /\ LET id == cv_locals.i
           layer_action == cv_locals.layer_action
           copy == LayerSourceCopy(cv_layers[id], cv_locals.copied_files)
       IN  /\ cv_locals' =
                 [cv_locals EXCEPT
                    !.i = @ + 1,
                    !.offline_layers = IF layer_action = OFFLINE
                                       THEN Append(@, id) ELSE @,
                    !.copied_files = IF layer_action \in {COPY, NO_ACTION}
                                     THEN copy.ret ELSE @]
           /\ cv_layers' =
                 IF layer_action \in {COPY, NO_ACTION, KEEP_EXISTENT}
                 THEN [cv_layers EXCEPT ![id] = copy.layer]
                 ELSE IF layer_action = REMOVE
                 THEN [cv_layers EXCEPT ![id].present = FALSE]
                 ELSE cv_layers
           /\ cv_disk' =
                 IF layer_action \in {COPY, NO_ACTION, KEEP_EXISTENT} /\ copy.copied
                 THEN [cv_disk EXCEPT !.layer_files = @ \cup {id}]
                 ELSE cv_disk
    /\ cv_pc' = "layers"
    /\ UNCHANGED <<cv_args, cv_outcome, cv_signals, cv_is_canceled, cv_project,
                   cv_backup, cv_layer_data_by_id>>
    /\ cv_calls' = cv_calls \o LayerActionCalls(cv_locals.i, cv_locals.layer_action)
    /\ CvFrame

\* project_layers has not got a layer an earlier run removed
SkipRemovedLayer ==
    /\ cv_pc = "layers"
    /\ cv_locals.i <= MaxConvLayers
    /\ ~cv_layers[cv_locals.i].present
    /\ cv_locals' = [cv_locals EXCEPT !.i = @ + 1]
    /\ UNCHANGED <<cv_args, cv_pc, cv_outcome, cv_signals, cv_is_canceled, cv_project,
                   cv_layers, cv_backup, cv_disk, cv_layer_data_by_id>>
    /\ UNCHANGED cv_calls
    /\ CvFrame

\* the loop is over (lines 343-348)
FinishLayers ==
    /\ cv_pc = "layers"
    /\ cv_locals.i > MaxConvLayers
    /\ cv_pc' = "check_350"
    /\ UNCHANGED <<cv_args, cv_outcome, cv_signals, cv_is_canceled, cv_project,
                   cv_layers, cv_backup, cv_disk, cv_locals, cv_layer_data_by_id>>
    /\ UNCHANGED cv_calls
    /\ CvFrame

\* the first write only: the project is saved once, by the last step
WriteCallsOnce(at) ==
    IF at = "350" THEN <<CheckCanceled(at, 0)>>
    ELSE <<CheckCanceled(at, 0), Call("write", 0, "", FALSE, <<>>)>>

\* QgsProject.instance().write(export_project_filename) past its checkpoint,
\* as _convert's calls
WriteCalls(at) == <<CheckCanceled(at, 0), Call("write", 0, "", FALSE, <<>>)>>

\* lines 350-371: the project is written to the export file a first time
WriteProject ==
    /\ cv_pc = "check_350"
    /\ CheckCanceledReturns(cv_is_canceled)
    /\ cv_project' = [cv_project EXCEPT !.fileName = cv_args.export_filename]
    /\ cv_disk' = [cv_disk EXCEPT !.project = "first"]
    /\ cv_locals' = [cv_locals EXCEPT !.i = 1]
    /\ cv_pc' = "dirs"
    /\ UNCHANGED <<cv_args, cv_outcome, cv_signals, cv_is_canceled, cv_layers,
                   cv_backup, cv_layer_data_by_id>>
    /\ cv_calls' = cv_calls \o WriteCalls("350")
    /\ CvFrame

\* lines 373-376: a directory that is not to be copied
SkipAttachmentDir ==
    /\ cv_pc = "dirs"
    /\ cv_locals.i <= Len(cv_args.dirs)
    /\ ~cv_args.dirs[cv_locals.i]
    /\ cv_locals' = [cv_locals EXCEPT !.i = @ + 1]
    /\ UNCHANGED <<cv_args, cv_pc, cv_outcome, cv_signals, cv_is_canceled, cv_project,
                   cv_layers, cv_backup, cv_disk, cv_layer_data_by_id>>
    /\ UNCHANGED cv_calls
    /\ CvFrame

\* lines 378-384: past the checkpoint, copy_attachments
CopyAttachmentDir ==
    /\ cv_pc = "dirs"
    /\ cv_locals.i <= Len(cv_args.dirs)
    /\ cv_args.dirs[cv_locals.i]
    /\ CheckCanceledReturns(cv_is_canceled)
    /\ cv_disk' = [cv_disk EXCEPT !.attachments = @ \cup {cv_locals.i}]
    /\ cv_locals' = [cv_locals EXCEPT !.i = @ + 1]
    /\ UNCHANGED <<cv_args, cv_pc, cv_outcome, cv_signals, cv_is_canceled, cv_project,
                   cv_layers, cv_backup, cv_layer_data_by_id>>
    /\ cv_calls' = Append(cv_calls, CheckCanceled("378", 0))
    /\ CvFrame

\* lines 415-420: the symbols' paths are made relative
RelativeSymbols(project) == [project EXCEPT !.symbols_relative = TRUE]

\* the directories are done: with offline layers the bounding box is made
\* (lines 386-393), without any the run goes on at line 415
FinishAttachmentDirs ==
    /\ cv_pc = "dirs"
    /\ cv_locals.i > Len(cv_args.dirs)
    /\ IF cv_locals.offline_layers # <<>>
       THEN /\ cv_pc' = "check_395"
            /\ UNCHANGED cv_project
       ELSE /\ cv_pc' = "check_422"
            /\ cv_project' = RelativeSymbols(cv_project)
    /\ UNCHANGED <<cv_args, cv_outcome, cv_signals, cv_is_canceled, cv_layers,
                   cv_backup, cv_disk, cv_locals, cv_layer_data_by_id>>
    /\ UNCHANGED cv_calls
    /\ CvFrame

\* the offline_layers list as a set of ids
OfflineLayerIds == { cv_locals.offline_layers[i] : i \in 1..Len(cv_locals.offline_layers) }

\* the arguments convert_to_offline hands to the offliner
OfflinerArgs ==
    [offline_layers_given |-> TRUE, offline_layers |-> OfflineLayerIds,
     bbox |-> cv_args.config = "aoi"]

\* lines 397-402: the offliner converts the layers and reports success
ConvertToOffline ==
    /\ cv_pc = "check_395"
    /\ CheckCanceledReturns(cv_is_canceled)
    /\ LET r == convert_to_offline_project(OfflinerArgs, cv_layers)
       IN  /\ ~r.raised
           /\ cv_layers' = r.layers
           /\ cv_disk' = [cv_disk EXCEPT !.gpkg = r.tables]
           /\ cv_project' = [cv_project EXCEPT
                                !.title = OfflineTitle(@, <<"project">>)]
    /\ cv_pc' = "check_411"
    /\ UNCHANGED <<cv_args, cv_outcome, cv_signals, cv_is_canceled, cv_backup,
                   cv_locals, cv_layer_data_by_id>>
    /\ cv_calls' = cv_calls \o ConvertToOfflineCalls(cv_locals.offline_layers)
    /\ CvFrame

\* lines 404-409: convert_to_offline returns False
ConvertToOfflineFails ==
    /\ cv_pc = "check_395"
    /\ CheckCanceledReturns(cv_is_canceled)
    /\ cv_outcome' = "PackagingFailedError"
    /\ cv_pc' = "finally"
    /\ UNCHANGED <<cv_args, cv_signals, cv_is_canceled, cv_project, cv_layers,
                   cv_backup, cv_disk, cv_locals, cv_layer_data_by_id>>
    /\ cv_calls' = cv_calls \o ConvertToOfflineCalls(cv_locals.offline_layers)
    /\ CvFrame

\* convert_to_offline raises (RuntimeError of create_layer or
\* convert_to_offline_layer): the layers' filters are left cleared
ConvertToOfflineRaises ==
    /\ cv_pc = "check_395"
    /\ CheckCanceledReturns(cv_is_canceled)
    /\ LET present == [id \in PresentIds(cv_layers) |-> cv_layers[id]]
           g == GroupLayers(OfflinerArgs, IdsInOrder(DOMAIN present), present, <<>>)
       IN  cv_layers' = [id \in DOMAIN cv_layers |->
                            IF id \in DOMAIN g.layers THEN g.layers[id]
                            ELSE cv_layers[id]]
    /\ cv_outcome' = "RuntimeError"
    /\ cv_pc' = "finally"
    /\ UNCHANGED <<cv_args, cv_signals, cv_is_canceled, cv_project, cv_backup,
                   cv_disk, cv_locals, cv_layer_data_by_id>>
    /\ cv_calls' = cv_calls \o ConvertToOfflineCalls(cv_locals.offline_layers)
    /\ CvFrame

\* warning.emit as _convert's calls: what the warning is about and the layer
WarningCalls(warnings) ==
    [i \in 1..Len(warnings) |->
        Call("warning.emit", 0, warnings[i].about, FALSE, <<warnings[i].layer>>)]

\* lines 413-420: post_process_offline_layers, then the symbols
PostProcessOfflineLayers ==
    /\ cv_pc = "check_411"
    /\ CheckCanceledReturns(cv_is_canceled)
    /\ cv_layers' = post_process_offline_layers(cv_layers, cv_layer_data_by_id).layers
    /\ cv_project' = RelativeSymbols([cv_project EXCEPT !.offline_flags = TRUE])
    /\ cv_locals' = [cv_locals EXCEPT !.post_processed = TRUE]
    /\ cv_pc' = "check_422"
    /\ UNCHANGED <<cv_args, cv_outcome, cv_signals, cv_is_canceled, cv_backup,
                   cv_disk, cv_layer_data_by_id>>
    /\ cv_calls' = cv_calls
                    \o <<CheckCanceled("411", 0),
                         Call("post_process_offline_layers", 0, "", FALSE, <<>>)>>
                    \o WarningCalls(post_process_offline_layers(
                                        cv_layers, cv_layer_data_by_id).warnings)
    /\ CvFrame

\* lines 424-430: the project is written a second time and _convert returns
WriteFinalProject ==
    /\ cv_pc = "check_422"
    /\ CheckCanceledReturns(cv_is_canceled)
    /\ cv_project' = [cv_project EXCEPT !.fileName = cv_args.export_filename]
    /\ cv_disk' = [cv_disk EXCEPT !.project = "final"]
    /\ cv_outcome' = "returned"
    /\ cv_pc' = "finally"
    /\ UNCHANGED <<cv_args, cv_signals, cv_is_canceled, cv_layers, cv_backup,
                   cv_locals, cv_layer_data_by_id>>
    /\ cv_calls' = cv_calls \o WriteCalls("422")
    /\ CvFrame

\* the run stands at a _check_canceled() call
AtCheckpoint ==
    \/ cv_pc \in {"layer_check", "check_350", "check_395", "check_411", "check_422"}
    \/ /\ cv_pc = "dirs"
       /\ cv_locals.i <= Len(cv_args.dirs)
       /\ cv_args.dirs[cv_locals.i]

\* the line of that call and the layer of the loop's turn, 0 outside it
CheckpointAt ==
    IF cv_pc = "layer_check" THEN "layer"
    ELSE IF cv_pc = "check_350" THEN "350"
    ELSE IF cv_pc = "dirs" THEN "378"
    ELSE IF cv_pc = "check_395" THEN "395"
    ELSE IF cv_pc = "check_411" THEN "411"
    ELSE "422"

CheckpointLayer == IF cv_pc = "layer_check" THEN cv_locals.i ELSE 0

\* _check_canceled() finds _is_canceled set
RaiseCanceled ==
    /\ AtCheckpoint
    /\ ~CheckCanceledReturns(cv_is_canceled)
    /\ cv_outcome' = "PackagingCanceledError"
    /\ cv_pc' = "finally"
    /\ UNCHANGED <<cv_args, cv_signals, cv_is_canceled, cv_project, cv_layers,
                   cv_backup, cv_disk, cv_locals, cv_layer_data_by_id>>
    /\ cv_calls' = Append(cv_calls, CheckCanceled(CheckpointAt, CheckpointLayer))
    /\ CvFrame

\* the finally clause of convert(): the project is cleared and read back
\* from the backup when reload_original_project is set
Finally ==
    /\ cv_pc = "finally"
    /\ IF ReloadsInFinally(cv_args.reload_original_project, cv_outcome)
       THEN /\ cv_project' = open_project(OriginalFileName, "backup.qgs",
                                          cv_backup.project)
            /\ cv_layers' = cv_backup.layers
       ELSE UNCHANGED <<cv_project, cv_layers>>
    /\ cv_pc' = "done"
    /\ UNCHANGED <<cv_args, cv_outcome, cv_signals, cv_is_canceled, cv_backup,
                   cv_disk, cv_locals, cv_layer_data_by_id>>
    /\ UNCHANGED cv_calls
    /\ CvFrame

Next ==
    \/ ConverterInit
    \/ Cancel
    \/ ConvertBegin
    \/ CollectLayer
    \/ DispatchLayer
    \/ FinishLayers
    \/ WriteProject
    \/ SkipAttachmentDir
    \/ CopyAttachmentDir
    \/ FinishAttachmentDirs
    \/ ConvertToOffline
    \/ ConvertToOfflineFails
    \/ ConvertToOfflineRaises
    \/ PostProcessOfflineLayers
    \/ WriteFinalProject
    \/ RaiseCanceled
    \/ Finally

\* a convert() that starts by clearing the flag
IsCanceledClearedByConvert(is_canceled) == FALSE

\* _is_canceled as convert() finds and leaves it: no statement of convert()
\* or _convert() assigns it
IsCanceledAtConvert(is_canceled) == is_canceled

\* convert() is called again on the converter, after the run before
ConvertAgain ==
    /\ cv_pc = "done"
    /\ cv_run.n < MaxRuns
    /\ cv_is_canceled' = IsCanceledAtConvert(cv_is_canceled)
    /\ cv_run' = [n |-> cv_run.n + 1, canceled_at_start |-> cv_is_canceled]
    /\ cv_pc' = "ready"
    /\ cv_outcome' = "none"
    /\ cv_calls' = <<>>
    /\ UNCHANGED <<cv_args, cv_signals, cv_project, cv_layers, cv_backup, cv_disk,
                   cv_locals, cv_layer_data_by_id>>
    /\ UNCHANGED <<pkVars, fidVars, copyVars, offVars, lsVars, tgVars, pckVars, apVars>>

\* the runs of SpecCancel: convert() called up to MaxRuns times on one
\* converter, cancel() at any moment, no attachment directory, an offliner
\* that succeeds
NextCancel ==
    \/ ConverterInit
    \/ Cancel
    \/ ConvertBegin
    \/ CollectLayer
    \/ SkipRemovedLayer
    \/ DispatchLayer
    \/ FinishLayers
    \/ WriteProject
    \/ FinishAttachmentDirs
    \/ ConvertToOffline
    \/ PostProcessOfflineLayers
    \/ WriteFinalProject
    \/ RaiseCanceled
    \/ Finally
    \/ ConvertAgain

\* the runs of SpecLinker: no cancellation, no attachment directory, an
\* offliner that succeeds
NextLinker ==
    \/ ConverterInit
    \/ ConvertBegin
    \/ CollectLayer
    \/ DispatchLayer
    \/ FinishLayers
    \/ WriteProject
    \/ FinishAttachmentDirs
    \/ ConvertToOffline
    \/ PostProcessOfflineLayers
    \/ WriteFinalProject
    \/ Finally

(***************************************************************************)
(* remove_empty_groups_from_layer_tree_group.  The layer tree is a set of  *)
(* numbered nodes, node 1 the root; a node is a group or a layer and names *)
(* its parent, a group of a smaller number.  removeChildNode marks the     *)
(* child as no longer present.                                             *)
(***************************************************************************)
MaxTreeNodes == 5

TgNodeIds == 1..MaxTreeNodes

TgRoot == 1

TgNode(kind, parent) == [kind |-> kind, parent |-> parent, present |-> TRUE]

\* the parent of a node has a smaller number
TgParents ==
    { p \in [TgNodeIds \ {TgRoot} -> TgNodeIds] :
        \A n \in TgNodeIds \ {TgRoot} : p[n] < n }

TgTrees ==
    { t \in { [n \in TgNodeIds |->
                 IF n = TgRoot THEN TgNode("group", 0) ELSE TgNode(k[n], p[n])] :
             k \in [TgNodeIds \ {TgRoot} -> {"group", "layer"}],
             p \in TgParents } :
        \A n \in TgNodeIds \ {TgRoot} : t[t[n].parent].kind = "group" }

\* group.children(): the nodes of the group, as a list of its own
children(nodes, group) ==
    IdsInOrder({ n \in DOMAIN nodes : nodes[n].parent = group /\ nodes[n].present })

\* the children the group had when the call began
NoChildrenAtCall(nodes, group) ==
    { n \in DOMAIN nodes : nodes[n].parent = group } = {}

\* not child.children()
NoChildren(nodes, group) == children(nodes, group) = <<>>

\* group.removeChildNode(child)
removeChildNode(nodes, child) == [nodes EXCEPT ![child].present = FALSE]

TgFrameOf(nodes, group) == [group |-> group, children |-> children(nodes, group), i |-> 1]

TgIdle ==
    /\ tg_nodes = <<>>
    /\ tg_stack = <<>>
    /\ tg_pc = "idle"

TgInit ==
    /\ tg_nodes \in TgTrees
    /\ tg_stack = <<>>
    /\ tg_pc = "call"

TgTop == tg_stack[Len(tg_stack)]

TgChild == TgTop.children[TgTop.i]

TgStep(stack) == [stack EXCEPT ![Len(stack)].i = @ + 1]

\* line 343: the call on project.layerTreeRoot()
RemoveEmptyGroupsCall ==
    /\ tg_pc = "call"
    /\ tg_stack' = <<TgFrameOf(tg_nodes, TgRoot)>>
    /\ tg_pc' = "loop"
    /\ UNCHANGED tg_nodes
    /\ TgFrame

\* lines 436-438: a child that is not a group
RemoveEmptyGroupsSkipLayer ==
    /\ tg_pc = "loop"
    /\ TgTop.i <= Len(TgTop.children)
    /\ tg_nodes[TgChild].kind # "group"
    /\ tg_stack' = TgStep(tg_stack)
    /\ UNCHANGED <<tg_nodes, tg_pc>>
    /\ TgFrame

\* line 441: the call on a child that is a group
RemoveEmptyGroupsDescend ==
    /\ tg_pc = "loop"
    /\ TgTop.i <= Len(TgTop.children)
    /\ tg_nodes[TgChild].kind = "group"
    /\ tg_stack' = Append(tg_stack, TgFrameOf(tg_nodes, TgChild))
    /\ UNCHANGED <<tg_nodes, tg_pc>>
    /\ TgFrame

\* the call on a child returns, lines 443-444: the child is removed when it
\* has no children left
RemoveEmptyGroupsReturn ==
    /\ tg_pc = "loop"
    /\ Len(tg_stack) > 1
    /\ TgTop.i > Len(TgTop.children)
    /\ LET caller == SubSeq(tg_stack, 1, Len(tg_stack) - 1)
           child == TgTop.group
       IN  /\ tg_nodes' = IF NoChildren(tg_nodes, child)
                          THEN removeChildNode(tg_nodes, child)
                          ELSE tg_nodes
           /\ tg_stack' = TgStep(caller)
    /\ UNCHANGED tg_pc
    /\ TgFrame

\* the call on the root returns
RemoveEmptyGroupsDone ==
    /\ tg_pc = "loop"
    /\ Len(tg_stack) = 1
    /\ TgTop.i > Len(TgTop.children)
    /\ tg_stack' = <<>>
    /\ tg_pc' = "done"
    /\ UNCHANGED tg_nodes
    /\ TgFrame

NextTree ==
    \/ RemoveEmptyGroupsCall
    \/ RemoveEmptyGroupsSkipLayer
    \/ RemoveEmptyGroupsDescend
    \/ RemoveEmptyGroupsReturn
    \/ RemoveEmptyGroupsDone

(***************************************************************************)
(* ProjectChecker.check.  A check is its place in project_checks or        *)
(* layer_checks; what a check function returns is given by the project and *)
(* the layer, which name the checks that return a FeedbackResult.          *)
(***************************************************************************)
MaxCheckLayers == 2

CheckLayerIds == 1..MaxCheckLayers

CheckConfig(type, fn, scope) == [type |-> type, fn |-> fn, scope |-> scope]

\* self.project_checks
project_checks ==
    << CheckConfig("ERROR", "check_no_absolute_filepaths", "None"),
       CheckConfig("ERROR", "check_no_homepath", "None"),
       CheckConfig("ERROR", "check_files_have_unsupported_characters", "None"),
       CheckConfig("WARNING", "check_project_is_dirty", "Cloud"),
       CheckConfig("ERROR", "check_project_layers_sources_actions", "Cable") >>

\* self.layer_checks
layer_checks ==
    << CheckConfig("WARNING", "check_layer_has_utf8_datasources", "None"),
       CheckConfig("WARNING", "check_layer_has_ascii_filename", "None"),
       CheckConfig("WARNING", "check_external_layers", "None"),
       CheckConfig("WARNING", "check_layer_primary_key", "Cloud"),
       CheckConfig("WARNING", "check_layer_memory", "None"),
       CheckConfig("WARNING", "check_layer_configured", "None"),
       CheckConfig("WARNING", "check_layer_package_prevention", "None"),
       CheckConfig("WARNING", "check_layer_has_experimental_cloud_support", "Cloud") >>

\* Feedback(level, feedback_result, layer): layer 0 stands for no layer
Feedback(level, fn, layer) == [level |-> level, message |-> fn, layer_id |-> layer]

\* ProjectCheckerFeedback()
NewProjectCheckerFeedback ==
    [feedbacks |-> [k \in {0} |-> <<>>], count |-> 0, error_feedbacks |-> <<>>]

\* ProjectCheckerFeedback.add: key 0 is the key "" of the project
ProjectCheckerFeedbackAdd(self, feedback) ==
    LET layer_id_key == feedback.layer_id
    IN  [feedbacks |-> [k \in DOMAIN self.feedbacks \cup {layer_id_key} |->
                           IF k = layer_id_key
                           THEN (IF k \in DOMAIN self.feedbacks THEN self.feedbacks[k]
                                 ELSE <<>>) \o <<feedback>>
                           ELSE self.feedbacks[k]],
         count |-> self.count + 1,
         error_feedbacks |-> IF feedback.level = "ERROR"
                             THEN Append(self.error_feedbacks, feedback)
                             ELSE self.error_feedbacks]

\* check["scope"] and check["scope"] != scope
OutOfScope(check, scope) == check.scope # "None" /\ check.scope # scope

\* the test that ends the checks of a layer (lines 163-169)
BreaksLayerChecks(check, layer) ==
    \/ check.scope = "Cable" /\ layer.action = REMOVE
    \/ check.scope = "Cloud" /\ layer.cloud_action = REMOVE

CheckLayerChoices ==
    { [action |-> a, cloud_action |-> c, finds |-> f] :
        a \in {REMOVE, OFFLINE}, c \in {REMOVE, OFFLINE},
        f \in { {}, {3}, 1..Len(layer_checks) } }

PckIdle ==
    /\ pck_scope = "Cable"
    /\ pck_project = {}
    /\ pck_layers = <<>>
    /\ checked_feedback = NewProjectCheckerFeedback
    /\ pck_called = {}
    /\ pck_pc = "idle"
    /\ pck_layer = 0
    /\ pck_check = 1

PckInit ==
    /\ pck_scope \in {"Cable", "Cloud"}
    /\ pck_project \in { {}, {1, 4, 5} }
    /\ pck_layers \in [CheckLayerIds -> CheckLayerChoices]
    /\ checked_feedback = NewProjectCheckerFeedback
    /\ pck_called = {}
    /\ pck_pc = "project"
    /\ pck_layer = 0
    /\ pck_check = 1

PckCalled(layer, check) == [layer |-> layer, check |-> check]

\* lines 147-149: a check of the project that is out of scope
ProjectCheckOutOfScope ==
    /\ pck_pc = "project"
    /\ pck_check <= Len(project_checks)
    /\ OutOfScope(project_checks[pck_check], pck_scope)
    /\ pck_check' = pck_check + 1
    /\ UNCHANGED <<pck_scope, pck_project, pck_layers, checked_feedback, pck_called,
                   pck_pc, pck_layer>>
    /\ PckFrame

\* lines 151-153: a check of the project is called
ProjectCheckCalled ==
    /\ pck_pc = "project"
    /\ pck_check <= Len(project_checks)
    /\ ~OutOfScope(project_checks[pck_check], pck_scope)
    /\ pck_called' = pck_called \cup {PckCalled(0, pck_check)}
    /\ checked_feedback' =
          IF pck_check \in pck_project
          THEN ProjectCheckerFeedbackAdd(
                   checked_feedback,
                   Feedback(project_checks[pck_check].type,
                            project_checks[pck_check].fn, 0))
          ELSE checked_feedback
    /\ pck_check' = pck_check + 1
    /\ UNCHANGED <<pck_scope, pck_project, pck_layers, pck_pc, pck_layer>>
    /\ PckFrame

\* the checks of the project are done, the loop over the layers begins
ProjectChecksDone ==
    /\ pck_pc = "project"
    /\ pck_check > Len(project_checks)
    /\ pck_pc' = "layer"
    /\ pck_layer' = 1
    /\ pck_check' = 1
    /\ UNCHANGED <<pck_scope, pck_project, pck_layers, checked_feedback, pck_called>>
    /\ PckFrame

\* lines 155-162: a layer removed from both kinds of export is passed over
LayerRemovedFromBoth ==
    /\ pck_pc = "layer"
    /\ pck_layer <= MaxCheckLayers
    /\ pck_layers[pck_layer].action = REMOVE
    /\ pck_layers[pck_layer].cloud_action = REMOVE
    /\ pck_layer' = pck_layer + 1
    /\ UNCHANGED <<pck_scope, pck_project, pck_layers, checked_feedback, pck_called,
                   pck_pc, pck_check>>
    /\ PckFrame

\* the checks of any other layer begin
LayerChecksBegin ==
    /\ pck_pc = "layer"
    /\ pck_layer <= MaxCheckLayers
    /\ ~(/\ pck_layers[pck_layer].action = REMOVE
         /\ pck_layers[pck_layer].cloud_action = REMOVE)
    /\ pck_pc' = "checks"
    /\ pck_check' = 1
    /\ UNCHANGED <<pck_scope, pck_project, pck_layers, checked_feedback, pck_called,
                   pck_layer>>
    /\ PckFrame

\* lines 164-172: the break
LayerChecksBreak ==
    /\ pck_pc = "checks"
    /\ pck_check <= Len(layer_checks)
    /\ BreaksLayerChecks(layer_checks[pck_check], pck_layers[pck_layer])
    /\ pck_pc' = "layer"
    /\ pck_layer' = pck_layer + 1
    /\ UNCHANGED <<pck_scope, pck_project, pck_layers, checked_feedback, pck_called,
                   pck_check>>
    /\ PckFrame

\* lines 174-175: a check of the layer that is out of scope
LayerCheckOutOfScope ==
    /\ pck_pc = "checks"
    /\ pck_check <= Len(layer_checks)
    /\ ~BreaksLayerChecks(layer_checks[pck_check], pck_layers[pck_layer])
    /\ OutOfScope(layer_checks[pck_check], pck_scope)
    /\ pck_check' = pck_check + 1
    /\ UNCHANGED <<pck_scope, pck_project, pck_layers, checked_feedback, pck_called,
                   pck_pc, pck_layer>>
    /\ PckFrame

\* lines 177-181: a check of the layer is called
LayerCheckCalled ==
    /\ pck_pc = "checks"
    /\ pck_check <= Len(layer_checks)
    /\ ~BreaksLayerChecks(layer_checks[pck_check], pck_layers[pck_layer])
    /\ ~OutOfScope(layer_checks[pck_check], pck_scope)
    /\ pck_called' = pck_called \cup {PckCalled(pck_layer, pck_check)}
    /\ checked_feedback' =
          IF pck_check \in pck_layers[pck_layer].finds
          THEN ProjectCheckerFeedbackAdd(
                   checked_feedback,
                   Feedback(layer_checks[pck_check].type,
                            layer_checks[pck_check].fn, pck_layer))
          ELSE checked_feedback
    /\ pck_check' = pck_check + 1
    /\ UNCHANGED <<pck_scope, pck_project, pck_layers, pck_pc, pck_layer>>
    /\ PckFrame

\* the checks of the layer are done
LayerChecksDone ==
    /\ pck_pc = "checks"
    /\ pck_check > Len(layer_checks)
    /\ pck_pc' = "layer"
    /\ pck_layer' = pck_layer + 1
    /\ UNCHANGED <<pck_scope, pck_project, pck_layers, checked_feedback, pck_called,
                   pck_check>>
    /\ PckFrame

\* line 183: return checked_feedback
CheckReturns ==
    /\ pck_pc = "layer"
    /\ pck_layer > MaxCheckLayers
    /\ pck_pc' = "done"
    /\ UNCHANGED <<pck_scope, pck_project, pck_layers, checked_feedback, pck_called,
                   pck_layer, pck_check>>
    /\ PckFrame

NextChecker ==
    \/ ProjectCheckOutOfScope
    \/ ProjectCheckCalled
    \/ ProjectChecksDone
    \/ LayerRemovedFromBoth
    \/ LayerChecksBegin
    \/ LayerChecksBreak
    \/ LayerCheckOutOfScope
    \/ LayerCheckCalled
    \/ LayerChecksDone
    \/ CheckReturns

(***************************************************************************)
(* LayerSource.read_layer and LayerSource.apply, on the properties action, *)
(* attachment_naming, value_map_button_interface_threshold,                *)
(* is_feature_addition_locked, feature_addition_locked_expression and the  *)
(* outdated is_geometry_locked and geometry_locked_expression.  A Python   *)
(* value is its type with its text or its number; a property that is not   *)
(* set holds PyAbsent.                                                     *)
(***************************************************************************)
MaxApplyCalls == 3

PyValue(type, s, n) == [type |-> type, s |-> s, n |-> n]

PyNone == PyValue("NoneType", "", 0)

PyAbsent == PyValue("absent", "", 0)

PyStr(s) == PyValue("str", s, 0)

PyInt(n) == PyValue("int", "", n)

PyBool(b) == PyValue("bool", "", IF b THEN 1 ELSE 0)

\* bool(x)
PyTruth(x) ==
    IF x.type \in {"bool", "int"} THEN x.n # 0
    ELSE IF x.type = "str" THEN x.s # ""
    ELSE FALSE

\* x != y: numbers compare by value, anything else by type and value
PyNe(x, y) ==
    IF x.type \in {"bool", "int"} /\ y.type \in {"bool", "int"} THEN x.n # y.n
    ELSE x # y

\* json.dumps of the two dictionaries of the model
JsonDumps(d) == IF d = "empty" THEN "{}" ELSE "{\"photo\": \"expr\"}"

\* json.loads(text or "{}")
JsonLoads(x) ==
    IF ~PyTruth(x) \/ x.s = "{}" THEN "empty" ELSE "photo_expr"

\* layer.customProperty(key, default)
customProperty(props, key, default) ==
    IF props[key] = PyAbsent THEN default ELSE props[key]

ApKeys ==
    {"action", "attachment_naming", "value_map_button_interface_threshold",
     "is_feature_addition_locked", "feature_addition_locked_expression",
     "is_geometry_locked", "geometry_locked_expression"}

\* lines 171-297
read_layer(props) ==
    LET legacy == props["is_geometry_locked"] # PyAbsent
    IN  [_action |-> customProperty(props, "action", PyNone),
         _attachment_naming |->
             JsonLoads(customProperty(props, "attachment_naming", PyNone)),
         _value_map_button_interface_threshold |->
             customProperty(props, "value_map_button_interface_threshold", PyInt(0)),
         _is_feature_addition_locked |->
             IF legacy THEN customProperty(props, "is_geometry_locked", PyBool(FALSE))
             ELSE customProperty(props, "is_feature_addition_locked", PyBool(FALSE)),
         _feature_addition_locked_expression |->
             IF legacy THEN customProperty(props, "geometry_locked_expression", PyStr(""))
             ELSE customProperty(props, "feature_addition_locked_expression",
                                 PyStr(""))]

\* default_action of the layer of this component, a postgres layer
ApDefaultAction == PyStr(OFFLINE)

\* the property action (lines 635-640)
ApAction(self) == IF self._action = PyNone THEN ApDefaultAction ELSE self._action

\* the property is_feature_addition_locked (lines 918-920)
ApIsFeatureAdditionLocked(self) == PyBool(PyTruth(self._is_feature_addition_locked))

\* lines 308-472: has_changed
ApplyHasChanged(props, self) ==
    \/ PyNe(customProperty(props, "action", PyNone), ApAction(self))
    \/ PyNe(customProperty(props, "attachment_naming", PyNone),
            PyStr(JsonDumps(self._attachment_naming)))
    \/ PyNe(customProperty(props, "value_map_button_interface_threshold", PyNone),
            self._value_map_button_interface_threshold)
    \/ PyNe(PyBool(PyTruth(customProperty(props, "is_feature_addition_locked", PyNone))),
            ApIsFeatureAdditionLocked(self))
    \/ PyNe(PyBool(PyTruth(customProperty(props, "feature_addition_locked_expression",
                                          PyNone))),
            self._feature_addition_locked_expression)

\* lines 474-631: the properties after apply()
ApplyProps(props, self) ==
    [k \in ApKeys |->
        IF k = "action" THEN ApAction(self)
        ELSE IF k = "attachment_naming" THEN PyStr(JsonDumps(self._attachment_naming))
        ELSE IF k = "value_map_button_interface_threshold"
             THEN self._value_map_button_interface_threshold
        ELSE IF k = "is_feature_addition_locked"
             THEN (IF PyTruth(ApIsFeatureAdditionLocked(self)) THEN PyBool(TRUE)
                   ELSE PyAbsent)
        ELSE IF k = "feature_addition_locked_expression"
             THEN self._feature_addition_locked_expression
        ELSE PyAbsent]

ApNoProps == [k \in ApKeys |-> PyAbsent]

\* the layers: one never configured, one configured by an earlier apply(),
\* one locked with an expression, one with the outdated properties
ApLayers ==
    { ApNoProps,
      [ApNoProps EXCEPT !["action"] = PyStr(COPY),
                        !["attachment_naming"] = PyStr("{}"),
                        !["value_map_button_interface_threshold"] = PyInt(0),
                        !["feature_addition_locked_expression"] = PyStr("")],
      [ApNoProps EXCEPT !["action"] = PyStr(OFFLINE),
                        !["attachment_naming"] = PyStr("{\"photo\": \"expr\"}"),
                        !["value_map_button_interface_threshold"] = PyInt(0),
                        !["is_feature_addition_locked"] = PyBool(TRUE),
                        !["feature_addition_locked_expression"] = PyStr("expr")],
      [ApNoProps EXCEPT !["action"] = PyStr(OFFLINE),
                        !["is_geometry_locked"] = PyBool(TRUE),
                        !["geometry_locked_expression"] = PyStr("expr")] }

ApNoSelf ==
    [_action |-> PyNone, _attachment_naming |-> "empty",
     _value_map_button_interface_threshold |-> PyInt(0),
     _is_feature_addition_locked |-> PyNone,
     _feature_addition_locked_expression |-> PyStr("")]

ApCall(op, ret, props) == [op |-> op, ret |-> ret, props |-> props]

ApIdle ==
    /\ ap_props = ApNoProps
    /\ ap_self = ApNoSelf
    /\ ap_calls = <<>>
    /\ ap_pc = "idle"

ApInit ==
    /\ ap_props \in ApLayers
    /\ ap_self = ApNoSelf
    /\ ap_calls = <<>>
    /\ ap_pc = "new"

\* LayerSource(layer): lines 130-169
LayerSourceInit ==
    /\ ap_pc = "new"
    /\ ap_self' = read_layer(ap_props)
    /\ ap_pc' = "ready"
    /\ UNCHANGED <<ap_props, ap_calls>>
    /\ ApFrame

\* the setters of the fields
ApSetters ==
    { [field |-> "_action", value |-> PyStr(a)] : a \in {OFFLINE, REMOVE} }
    \cup { [field |-> "_is_feature_addition_locked", value |-> PyBool(b)] :
             b \in BOOLEAN }
    \cup { [field |-> "_feature_addition_locked_expression", value |-> PyStr(e)] :
             e \in {"", "expr"} }

\* a setter is called
LayerSourceSet ==
    /\ ap_pc = "ready"
    /\ Len(ap_calls) < MaxApplyCalls
    /\ \E s \in ApSetters :
          /\ ap_self' =
                IF s.field = "_action" THEN [ap_self EXCEPT !._action = s.value]
                ELSE IF s.field = "_is_feature_addition_locked"
                     THEN [ap_self EXCEPT !._is_feature_addition_locked = s.value]
                ELSE [ap_self EXCEPT !._feature_addition_locked_expression = s.value]
          /\ ap_calls' = Append(ap_calls, ApCall("set", FALSE, ap_props))
    /\ UNCHANGED <<ap_props, ap_pc>>
    /\ ApFrame

\* apply()
LayerSourceApply ==
    /\ ap_pc = "ready"
    /\ Len(ap_calls) < MaxApplyCalls
    /\ ap_props' = ApplyProps(ap_props, ap_self)
    /\ ap_calls' = Append(ap_calls,
                          ApCall("apply", ApplyHasChanged(ap_props, ap_self),
                                 ApplyProps(ap_props, ap_self)))
    /\ UNCHANGED <<ap_self, ap_pc>>
    /\ ApFrame

NextApply ==
    \/ LayerSourceInit
    \/ LayerSourceSet
    \/ LayerSourceApply

(***************************************************************************)
(* Specifications                                                          *)
(***************************************************************************)
vars == <<pkVars, fidVars, copyVars, offVars, cvVars, lsVars, tgVars, pckVars, apVars>>

InitPk == PkInit /\ FidIdle /\ CopyIdle /\ OffIdle /\ CvIdle /\ LsIdle /\ TgIdle /\ PckIdle /\ ApIdle

SpecPk == InitPk /\ [][NextPk]_vars

InitFid == FidInit /\ PkIdle /\ CopyIdle /\ OffIdle /\ CvIdle /\ LsIdle /\ TgIdle /\ PckIdle /\ ApIdle

SpecFid == InitFid /\ [][NextFid]_vars

InitCopy == CopyInit /\ PkIdle /\ FidIdle /\ OffIdle /\ CvIdle /\ LsIdle /\ TgIdle /\ PckIdle /\ ApIdle

SpecCopy == InitCopy /\ [][NextCopy]_vars

InitOffliner == OffInit /\ PkIdle /\ FidIdle /\ CopyIdle /\ CvIdle /\ LsIdle /\ TgIdle /\ PckIdle /\ ApIdle

SpecOffliner == InitOffliner /\ [][NextOffliner]_vars

InitConverter == CvInit /\ PkIdle /\ FidIdle /\ CopyIdle /\ OffIdle /\ LsIdle /\ TgIdle /\ PckIdle /\ ApIdle

Spec == InitConverter /\ [][Next]_vars

InitLinker == CvInitLinker /\ PkIdle /\ FidIdle /\ CopyIdle /\ OffIdle /\ LsIdle /\ TgIdle /\ PckIdle /\ ApIdle

SpecLinker == InitLinker /\ [][NextLinker]_vars

InitCancel == CvInitCancel /\ PkIdle /\ FidIdle /\ CopyIdle /\ OffIdle /\ LsIdle /\ TgIdle /\ PckIdle /\ ApIdle

SpecCancel == InitCancel /\ [][NextCancel]_vars

InitLayer == LsInit /\ PkIdle /\ FidIdle /\ CopyIdle /\ OffIdle /\ CvIdle /\ TgIdle /\ PckIdle /\ ApIdle

SpecLayer == InitLayer /\ [][NextLayer]_vars

InitTree == TgInit /\ PkIdle /\ FidIdle /\ CopyIdle /\ OffIdle /\ CvIdle /\ LsIdle /\ PckIdle /\ ApIdle

SpecTree == InitTree /\ [][NextTree]_vars

InitChecker == PckInit /\ PkIdle /\ FidIdle /\ CopyIdle /\ OffIdle /\ CvIdle /\ LsIdle /\ TgIdle /\ ApIdle

SpecChecker == InitChecker /\ [][NextChecker]_vars

InitApply == ApInit /\ PkIdle /\ FidIdle /\ CopyIdle /\ OffIdle /\ CvIdle /\ LsIdle /\ TgIdle /\ PckIdle

SpecApply == InitApply /\ [][NextApply]_vars

(***************************************************************************)
(* Claims on get_pk_attr_name                                              *)
(***************************************************************************)
PkCalled == pk_result.call = "get_pk_attr_name"

PkFieldNames == { pk_layer.fields[i].name : i \in 1..Len(pk_layer.fields) }

PkCommonCases ==
    LET r == pk_result.ret
        n == Len(pk_layer.pk_indexes)
    IN  /\ pk_layer.type # "VectorLayer" => r.status = "ExpectedVectorLayerError"
        /\ pk_layer.type = "VectorLayer" /\ n > 1
               => r.status = "UnsupportedPrimaryKeyError"
        /\ pk_layer.type = "VectorLayer" /\ n = 1
               => LET col == pk_layer.fields[pk_layer.pk_indexes[1]].name
                  IN  IF HasComma(col)
                      THEN r.status = "UnsupportedPrimaryKeyError"
                      ELSE r = PkOk(col)
        /\ r.status = "ok" => ~HasComma(r.name)
        /\ pk_layer.type = "VectorLayer" /\ n = 0 /\ NameFid \in PkFieldNames
               => r = PkOk(NameFid)

\* C8 as amended: get_pk_attr_name returns the single primary-key column's
\* name; with no primary-key column it returns the name, as spelled, of the
\* field whose name is fid ignoring case ("fid" when a field is spelled so)
\* and raises UnsupportedPrimaryKeyError only when no field name is fid in
\* any case; a composite key or a comma in the name raises
\* UnsupportedPrimaryKeyError, a non-vector layer ExpectedVectorLayerError.
C8_PkResolution ==
    PkCalled =>
        LET r == pk_result.ret
            n == Len(pk_layer.pk_indexes)
            nofid == pk_layer.type = "VectorLayer" /\ n = 0
        IN  /\ PkCommonCases
            /\ nofid /\ (\E f \in PkFieldNames : Lower(f) = NameFid)
                   => /\ r.status = "ok"
                      /\ r.name \in PkFieldNames
                      /\ Lower(r.name) = NameFid
            /\ nofid /\ ~(\E f \in PkFieldNames : Lower(f) = NameFid)
                   => r.status = "UnsupportedPrimaryKeyError"

\* C8 as stated: with no primary-key column, a field named fid gives "fid"
\* and no field literally named fid raises UnsupportedPrimaryKeyError.
C8_AsStated ==
    PkCalled =>
        /\ PkCommonCases
        /\ ( /\ pk_layer.type = "VectorLayer"
             /\ Len(pk_layer.pk_indexes) = 0
             /\ NameFid \notin PkFieldNames )
               => pk_result.ret.status = "UnsupportedPrimaryKeyError"

\* a layer without primary key whose only fid field is spelled FID resolved
C8_Witness ==
    /\ PkCalled
    /\ pk_layer.type = "VectorLayer"
    /\ Len(pk_layer.pk_indexes) = 0
    /\ NameFid \notin PkFieldNames
    /\ pk_result.ret = PkOk(NameFidUpper)

(***************************************************************************)
(* Claims on LayerSource.copy                                              *)
(***************************************************************************)
CopyDst == copy_fs["dst"]

\* C6: a copy with keep_existent=True leaves every file that existed in the
\* target directory with the content it had (so a second run keeps what the
\* first run created), while a copy with keep_existent=False leaves every
\* file it copies with the content of its source, whatever was there.
C6_KeepExistent ==
    copy_last.outcome # "none" =>
        /\ copy_last.keep_existent =>
              \A f \in CopyFileUniverse :
                 copy_last.dst_before[f] # "absent"
                    => CopyDst[f] = copy_last.dst_before[f]
        /\ ~copy_last.keep_existent /\ copy_last.outcome = "copied_files" =>
              \A f \in copy_last.files : CopyDst[f] = copy_last.src_before[f]

\* the second of two runs kept a file of the first although the source changed
C6_Witness ==
    /\ copy_calls = 2
    /\ copy_last.keep_existent
    /\ copy_last.outcome = "copied_files"
    /\ \E f \in copy_last.files :
          /\ copy_last.dst_before[f] = "v1"
          /\ copy_last.src_before[f] = "v2"
          /\ CopyDst[f] = "v1"

\* a plain copy replaced a file of another content in the target directory
C6_WitnessOverwrite ==
    /\ ~copy_last.keep_existent
    /\ copy_last.outcome = "copied_files"
    /\ \E f \in copy_last.files :
          /\ copy_last.dst_before[f] = "old"
          /\ CopyDst[f] = "v1"

ExtShp == <<".","s","h","p">>
ExtDbf == <<".","d","b","f">>

\* the names basename + extension over the layer's extension group
CopyGroupNames ==
    LET g == get_file_extension_group(copy_layer.filename)
    IN  { g.basename \o g.group[i] : i \in 1..Len(g.group) }

FidNameTaken(pf, name) ==
    \/ \E n \in pf.explicit : Lower(n) = Lower(name)
    \/ \E k \in 0..(pf.prefix - 1) : FidCandidate(k) = Lower(name)

\* the index of the first of fid, fid_1, ... that no field is spelled like;
\* the names before pf.prefix are taken, and at most Cardinality(explicit)
\* of the following ones
FidFirstFree(pf) ==
    CHOOSE k \in pf.prefix..(pf.prefix + Cardinality(pf.explicit)) :
        /\ ~FidNameTaken(pf, FidCandidate(k))
        /\ \A j \in pf.prefix..(k - 1) : FidNameTaken(pf, FidCandidate(j))

C9_WitnessGaveUp ==
    /\ fid_pc = "RuntimeError"
    /\ counter = FidProbeLimit

(***************************************************************************)
(* Claims about the consolidation engine (SpecOffliner).                   *)
(***************************************************************************)
\* the layers the call takes offline, and the hash of a layer's data source
OffConverted == { id \in DOMAIN off_layers : IsOfflineCandidate(off_args, off_layers, id) }

OffHashOf(id) == Sha256(RemoteSource(off_layers[id].base, ""))

OffTablesNamed(h) == { t \in gpkg : t.name = h }

\* C4: after the call, each set of converted layers with equal data-source
\* hashes has exactly one table in the GeoPackage, named by the hash, every
\* layer of the set points at that table, layers with different hashes point
\* at different tables, and the layers left out keep their source.
C4_SharedTable ==
    off_pc = "done" =>
        /\ \A id \in OffConverted :
              /\ Cardinality(OffTablesNamed(OffHashOf(id))) = 1
              /\ off_layers[id].source.kind = "gpkg"
              /\ off_layers[id].source.path = OfflineGpkgPath
              /\ off_layers[id].source.layername = OffHashOf(id)
        /\ \A a, b \in OffConverted :
              OffHashOf(a) # OffHashOf(b) =>
                 off_layers[a].source.layername # off_layers[b].source.layername
        /\ \A t \in gpkg : \E id \in OffConverted : t.name = OffHashOf(id)
        /\ \A id \in DOMAIN off_layers \ OffConverted :
              off_layers[id].source.kind = "remote"

\* two layers of one source, with different filters, end on the one table
\* while a third layer of another source has its own
C4_Witness ==
    /\ off_pc = "done"
    /\ \E a, b, c \in OffConverted :
          /\ a # b
          /\ OffHashOf(a) = OffHashOf(b)
          /\ off_layers[a].source.subset # off_layers[b].source.subset
          /\ off_layers[a].source.layername = off_layers[b].source.layername
          /\ OffHashOf(c) # OffHashOf(a)
          /\ off_layers[c].source.kind = "gpkg"

OffCallsFor(log, h) == { i \in 1..Len(log) : log[i].hash = h }

OffGroupOf(h) == { id \in OffConverted : OffHashOf(id) = h }

OffFirstOf(h) == CHOOSE id \in OffGroupOf(h) : \A other \in OffGroupOf(h) : id <= other

OffNoDuplicates(rows) == \A i, j \in 1..Len(rows) : rows[i] = rows[j] => i = j

\* C5: create_layer and convert_to_offline_layer are never called twice for
\* one group and only on the group's first layer; when the call is done each
\* was called exactly once per group; no table holds a source feature twice.
C5_OncePerGroup ==
    /\ \A i \in 1..Len(datasource_mapping) :
          LET h == datasource_mapping[i].hash
          IN  /\ Cardinality(OffCallsFor(off_calls.create_layer, h)) <= 1
              /\ Cardinality(OffCallsFor(off_calls.convert_to_offline_layer, h)) <= 1
              /\ off_pc = "done" =>
                    /\ Cardinality(OffCallsFor(off_calls.create_layer, h)) = 1
                    /\ Cardinality(OffCallsFor(off_calls.convert_to_offline_layer, h)) = 1
    /\ \A i \in 1..Len(off_calls.create_layer) :
          off_calls.create_layer[i].layer = OffFirstOf(off_calls.create_layer[i].hash)
    /\ \A i \in 1..Len(off_calls.convert_to_offline_layer) :
          off_calls.convert_to_offline_layer[i].layer =
             OffFirstOf(off_calls.convert_to_offline_layer[i].hash)
    /\ Len(off_calls.create_layer) <= Len(datasource_mapping)
    /\ Len(off_calls.convert_to_offline_layer) <= Len(datasource_mapping)
    /\ \A t \in gpkg : OffNoDuplicates(t.rows)

\* a group of three layers was converted: one call each, and the table holds
\* each of the source's features once
C5_Witness ==
    /\ off_pc = "done"
    /\ \E i \in 1..Len(datasource_mapping) :
          /\ Len(datasource_mapping[i].layer_infos) = MaxOffLayers
          /\ Cardinality(OffCallsFor(off_calls.convert_to_offline_layer,
                                     datasource_mapping[i].hash)) = 1
          /\ \E t \in gpkg :
                /\ t.name = datasource_mapping[i].hash
                /\ Len(t.rows) = 2

(***************************************************************************)
(* Claims about the converter (Spec, SpecLinker).                          *)
(***************************************************************************)
\* the live project is the original again: named as it was and holding what
\* the backup holds
CvRestored ==
    /\ cv_project = cv_backup.project
    /\ cv_project.fileName = OriginalFileName
    /\ cv_layers = cv_backup.layers

\* the live project is what _convert left: named after the export target
\* once the project was written there
CvLeftAsConverted ==
    cv_project.fileName = IF cv_disk.project = "absent" THEN OriginalFileName
                          ELSE ExportFileName

\* C1: when convert() has returned or raised, on whatever path, and
\* reload_original_project was set (the default), the live project is the
\* original read back from the backup, under its original file name; when
\* it was not set the project is left as the run made it.
C1_RestoreOnExit ==
    cv_pc = "done" =>
        IF cv_args.reload_original_project THEN CvRestored ELSE CvLeftAsConverted

\* C1 as the claim states it: restored on every exit path
C1_AsStated == cv_pc = "done" => CvRestored

\* the offliner raised after the first write of the export file, and the
\* original project is back
C1_Witness ==
    /\ cv_pc = "done"
    /\ cv_args.reload_original_project
    /\ cv_outcome = "RuntimeError"
    /\ cv_disk.project = "first"
    /\ cv_backup.layers # <<>>
    /\ CvRestored

\* C2, the state part: a canceled run has not written the final project and,
\* with reload_original_project set, ends with the original project restored
CvCanceledState ==
    cv_outcome = "PackagingCanceledError" =>
        /\ cv_disk.project # "final"
        /\ cv_pc \in {"finally", "done"}
        /\ (cv_pc = "done" /\ cv_args.reload_original_project => CvRestored)

\* C2, the step part: from a checkpoint reached with _is_canceled set the run
\* leaves with PackagingCanceledError and touches nothing on disk
CvCanceledStep ==
    (AtCheckpoint /\ cv_is_canceled) =>
        /\ cv_pc' = "finally"
        /\ cv_outcome' = "PackagingCanceledError"
        /\ cv_disk' = cv_disk

\* C2: if cancel() was called when the run reaches a checkpoint, the run ends
\* with PackagingCanceledError (not PackagingFailedError), the final project
\* write is not performed, and the original project is restored when
\* reload_original_project is set (the default).
C2_CancelAtCheckpoint == [](CvCanceledState) /\ [][CvCanceledStep]_vars

\* C2 as the claim states it: every canceled run ends restored
C2_AsStated ==
    cv_pc = "done" /\ cv_outcome = "PackagingCanceledError" =>
        cv_disk.project # "final" /\ CvRestored

\* canceled at the checkpoint after the offliner's conversion
C2_Witness ==
    /\ cv_pc = "done"
    /\ cv_outcome = "PackagingCanceledError"
    /\ cv_args.reload_original_project
    /\ cv_disk.gpkg # {}
    /\ cv_disk.project = "first"
    /\ CvRestored

\* C3: a converter constructed with an empty export file name raises
\* PackagingFailedError; the offliner's signals are not connected and nothing
\* is created on disk, then or later.
C3_EmptyExportFilename ==
    cv_args.export_filename = "" /\ cv_pc \notin {"idle", "new"} =>
        /\ cv_pc = "ctor_raised"
        /\ cv_outcome = "PackagingFailedError"
        /\ ~cv_signals
        /\ cv_disk = EmptyDisk

C3_Witness ==
    /\ cv_args.export_filename = ""
    /\ cv_pc = "ctor_raised"
    /\ cv_outcome = "PackagingFailedError"

\* the layers the run took offline
CvOfflineConverted ==
    { id \in DOMAIN cv_layers : cv_layers[id].present
                                /\ cv_layers[id].source.kind = "gpkg" }

\* C10: after post-processing, a field of an offline-converted layer A whose
\* value relation named the offline-converted layer B names B in the output
\* project (PythonMiniOffliner keeps the layers' ids).
C10_AsStated ==
    cv_locals.post_processed /\ cv_pc = "check_422" =>
        \A a, b \in CvOfflineConverted :
            cv_layer_data_by_id[a].value_relation = b => cv_layers[a].widget = b

\* layers 1 and 2 have different sources and one name, both were taken
\* offline, layer 1 referenced layer 2 and now references itself
C10_Diverges ==
    /\ cv_locals.post_processed
    /\ cv_pc = "check_422"
    /\ {1, 2} \subseteq CvOfflineConverted
    /\ cv_layer_data_by_id[1].value_relation = 2
    /\ cv_layer_data_by_id[1].source.base # cv_layer_data_by_id[2].source.base
    /\ cv_layers[1].name = cv_layers[2].name
    /\ cv_layers[1].widget = 1

(***************************************************************************)
(* Claims about LayerSource's classification (SpecLayer).                  *)
(***************************************************************************)
LsPersistedAction == ls_layer.action # "None"

\* the default action as the claim words it
LsDefaultAsStated ==
    IF ls_layer.provider = "virtual" THEN NO_ACTION
    ELSE IF ls_layer.is_file /\ ~ls_layer.localized THEN COPY
    ELSE IF EndsWith(ls_layer.uri, SuffixEcw) THEN REMOVE
    ELSE IF ls_layer.provider = "postgres" THEN OFFLINE
    ELSE NO_ACTION

\* C11: action is the persisted action when one is configured; otherwise
\* no_action for a virtual layer, else copy for a file that is not under a
\* localized path, else remove for an unsupported (ecw) source, else offline
\* for postgres, else no_action.
C11_AsStated ==
    ls_result.call = "action" =>
        ls_result.ret = << IF LsPersistedAction THEN ls_layer.action
                           ELSE LsDefaultAsStated >>

\* a file under a localized path, nothing persisted: action is copy
C11_Diverges ==
    /\ ls_result.call = "action"
    /\ ~LsPersistedAction
    /\ ls_layer.is_file
    /\ ls_layer.localized
    /\ ls_layer.provider = "ogr"
    /\ ls_result.ret = <<COPY>>

LsEntries(list) == { list[i] : i \in 1..Len(list) }

LsDirectOnly == ls_layer.provider = "virtual" \/ ls_layer.localized

\* C12, the list as the claim words it: offline for every vector layer
C12_AsStated ==
    ls_result.call = "available_cloud_actions" =>
        /\ (ls_layer.type = "VectorLayer" => OFFLINE \in LsEntries(ls_result.ret))
        /\ (~ls_layer.is_file \/ ls_layer.read_only =>
               NO_ACTION \in LsEntries(ls_result.ret))
        /\ ls_result.ret[Len(ls_result.ret)] = REMOVE
        /\ LsEntries(ls_result.ret) \cap {COPY, KEEP_EXISTENT} = {}

\* C12: cloud_action is the persisted cloud action when set, otherwise the
\* first entry of available_cloud_actions.  For a virtual layer or one under
\* a localized path that list is no_action, remove; for any other layer it
\* holds offline iff the layer is a vector layer, no_action when the layer
\* is not a file or is read-only, remove as its last entry, and never copy
\* or keep_existent.
C12_CloudActions ==
    /\ ls_result.call = "cloud_action" =>
          ls_result.ret = << IF ls_layer.cloud_action # "None"
                             THEN ls_layer.cloud_action
                             ELSE available_cloud_actions(ls_layer)[1] >>
    /\ ls_result.call = "available_cloud_actions" =>
          /\ Len(ls_result.ret) >= 2
          /\ (LsDirectOnly => ls_result.ret = <<NO_ACTION, REMOVE>>)
          /\ (~LsDirectOnly =>
                 (OFFLINE \in LsEntries(ls_result.ret)
                     <=> ls_layer.type = "VectorLayer"))
          /\ (~ls_layer.is_file \/ ls_layer.read_only =>
                 NO_ACTION \in LsEntries(ls_result.ret))
          /\ ls_result.ret[Len(ls_result.ret)] = REMOVE
          /\ LsEntries(ls_result.ret) \cap {COPY, KEEP_EXISTENT} = {}

\* the default of a read-only vector file is offline, the first of three
C12_Witness ==
    /\ ls_result.call = "cloud_action"
    /\ ls_layer.cloud_action = "None"
    /\ ls_layer.type = "VectorLayer"
    /\ ls_layer.is_file
    /\ ls_layer.read_only
    /\ ~LsDirectOnly
    /\ available_cloud_actions(ls_layer) = <<OFFLINE, NO_ACTION, REMOVE>>
    /\ ls_result.ret = <<OFFLINE>>

LsReasons == LsEntries(ls_result.ret)

LsInvalidityReasons ==
    LsReasons \cap {"LOCALIZED_PATH", "INVALID_REMOTE_RASTER_LAYER", "INVALID"}

\* C13: package_prevention_reasons holds UNSUPPORTED_DATASOURCE iff the
\* source ends with ecw; for an invalid layer it holds exactly one of
\* LOCALIZED_PATH (localized path), INVALID_REMOTE_RASTER_LAYER (provider wms,
\* not localized) and INVALID (neither); for a valid layer none of the
\* three; for a valid supported layer it is empty.
C13_PreventionReasons ==
    ls_result.call = "package_prevention_reasons" =>
        /\ ("UNSUPPORTED_DATASOURCE" \in LsReasons
               <=> EndsWith(ls_layer.uri, SuffixEcw))
        /\ (~ls_layer.valid =>
               LsInvalidityReasons =
                   IF ls_layer.localized THEN {"LOCALIZED_PATH"}
                   ELSE IF ls_layer.provider = "wms"
                   THEN {"INVALID_REMOTE_RASTER_LAYER"}
                   ELSE {"INVALID"})
        /\ (ls_layer.valid => LsInvalidityReasons = {})
        /\ (ls_layer.valid /\ ~EndsWith(ls_layer.uri, SuffixEcw) =>
               ls_result.ret = <<>>)
        /\ Len(ls_result.ret) = Cardinality(LsReasons)

\* an unreachable web raster is spared, one under a localized path is not
\* taken for one
C13_Witness ==
    /\ ls_result.call = "package_prevention_reasons"
    /\ ~ls_layer.valid
    /\ ls_layer.provider = "wms"
    /\ ~ls_layer.localized
    /\ ls_result.ret = <<"INVALID_REMOTE_RASTER_LAYER">>

C13_WitnessBoth ==
    /\ ls_result.call = "package_prevention_reasons"
    /\ ~ls_layer.valid
    /\ ls_layer.localized
    /\ ls_result.ret = <<"UNSUPPORTED_DATASOURCE", "LOCALIZED_PATH">>

\* convert() has taken its backup: the layers as they were are on record
CvRunning == cv_pc \notin {"idle", "new", "ready", "ctor_raised"}

\* the layer as the run found it
CvOriginal(id) == cv_backup.layers[id]

\* the layer loop's turn for the layer is over
CvLoopPast(id) ==
    \/ cv_pc \in {"layers", "layer_check"} /\ cv_locals.i > id
    \/ cv_pc \in {"check_350", "dirs", "check_395", "check_411", "check_422"}
    \/ cv_pc = "finally" /\ cv_outcome \in {"returned", "PackagingFailedError"}

CvCallsOn(id) == { k \in 1..Len(cv_calls) : cv_calls[k].layer = id }

CvCallsOf(op, id) == { k \in CvCallsOn(id) : cv_calls[k].op = op }

CvInvalid(id) == ~CvOriginal(id).valid

CvUnsupported(id) == EndsWith(CvOriginal(id).uri, SuffixEcw)

CvSpareable(id) == CvOriginal(id).localized \/ CvOriginal(id).provider = "wms"

\* a reason of REASONS_TO_REMOVE_LAYER applies to the layer
CvToRemove(id) == CvUnsupported(id) \/ (CvInvalid(id) /\ ~CvSpareable(id))

\* only LOCALIZED_PATH or INVALID_REMOTE_RASTER_LAYER applies
CvToSkip(id) == CvInvalid(id) /\ CvSpareable(id) /\ ~CvUnsupported(id)

CvNoBookkeeping(id) ==
    /\ id \notin DOMAIN cv_layer_data_by_id
    /\ cv_layers[id].qfs = CvOriginal(id).qfs
    /\ cv_layers[id].read_only = CvOriginal(id).read_only

\* C14: a layer prevented from packaging for INVALID or UNSUPPORTED_DATASOURCE
\* is removed from the project exactly once and nothing else is done with
\* it; one prevented only for LOCALIZED_PATH or INVALID_REMOTE_RASTER_LAYER
\* stays in the project as it was: never copied, never appended to
\* offline_layers, without LayerData and without QFieldSync properties.
C14_PreventedLayers ==
    CvRunning /\ cv_pc # "done" =>
        \A id \in ConvLayerIds :
            /\ CvToRemove(id) =>
                  /\ CvCallsOn(id) = CvCallsOf("removeMapLayer", id)
                  /\ Cardinality(CvCallsOn(id)) <= 1
                  /\ cv_layers[id].present <=> CvCallsOn(id) = {}
                  /\ CvLoopPast(id) => Cardinality(CvCallsOn(id)) = 1
                  /\ CvNoBookkeeping(id)
                  /\ id \notin cv_disk.layer_files
                  /\ id \notin OfflineLayerIds
            /\ CvToSkip(id) =>
                  /\ CvCallsOn(id) = {}
                  /\ cv_layers[id] = CvOriginal(id)
                  /\ CvNoBookkeeping(id)
                  /\ id \notin cv_disk.layer_files
                  /\ id \notin OfflineLayerIds

\* a finished run that removed an invalid first layer and kept a second one
\* that lies under a localized path
C14_Witness ==
    /\ cv_pc = "finally"
    /\ cv_outcome = "returned"
    /\ CvToRemove(1)
    /\ CvInvalid(1)
    /\ ~cv_layers[1].present
    /\ CvToSkip(2)
    /\ CvOriginal(2).localized
    /\ cv_layers[2].present
    /\ cv_disk.project = "final"

C14_WitnessRemoteRaster ==
    /\ cv_pc = "finally"
    /\ cv_outcome = "returned"
    /\ CvToSkip(1)
    /\ CvOriginal(1).provider = "wms"
    /\ cv_layers[1].present
    /\ CvUnsupported(2)
    /\ ~cv_layers[2].present

\* the layer went through lines 290-326: its LayerData is on record
CvCollected(id) == id \in DOMAIN cv_layer_data_by_id

CvValidVector(id) == CvOriginal(id).valid /\ CvOriginal(id).type = "VectorLayer"

\* the calls of the branch taken for the layer, the checkpoint aside
CvBranchCalls(id) == { k \in CvCallsOn(id) : cv_calls[k].op # "_check_canceled" }

CvConfiguredAction(id) ==
    IF cv_args.export_type = "Cable" THEN action(CvOriginal(id))
    ELSE cloud_action(CvOriginal(id))

\* the call the branch of an action makes on the layer
CvBranchCallOf(layer_action, id) ==
    IF layer_action = OFFLINE
    THEN Call("offline_layers.append", id, "", FALSE, <<>>)
    ELSE IF layer_action = KEEP_EXISTENT THEN Call("copy", id, "", TRUE, <<>>)
    ELSE IF layer_action = REMOVE THEN Call("removeMapLayer", id, "", FALSE, <<>>)
    ELSE Call("copy", id, "", FALSE, <<>>)

\* C15: a valid vector layer with a usable primary key gets
\* QFieldSync/sourceDataPrimaryKeys set to the key's name and is neither made
\* read-only nor flagged.  One without a usable key, in a Cloud run, is
\* treated with NO_ACTION, made read-only and flagged with
\* QFieldSync/unsupported_source_pk, gets no sourceDataPrimaryKeys, and the
\* run does not fail for it; in a Cable run it keeps its action and is not
\* made read-only.
C15_PrimaryKeys ==
    /\ CvRunning /\ cv_pc # "done" =>
          \A id \in ConvLayerIds :
              CvCollected(id) /\ CvValidVector(id) =>
                  LET pk == pk_attr_name(CvOriginal(id))
                      cloud == cv_args.export_type = "Cloud"
                  IN  /\ pk # NameEmpty =>
                            /\ cv_layers[id].qfs.sourceDataPrimaryKeys = pk
                            /\ ~cv_layers[id].qfs.unsupported_source_pk
                            /\ cv_layers[id].read_only = CvOriginal(id).read_only
                      /\ pk = NameEmpty /\ cloud =>
                            /\ cv_layers[id].qfs.sourceDataPrimaryKeys = NameEmpty
                            /\ cv_layers[id].qfs.unsupported_source_pk
                            /\ cv_layers[id].read_only
                            /\ \A k \in CvBranchCalls(id) :
                                  cv_calls[k] = CvBranchCallOf(NO_ACTION, id)
                      /\ pk = NameEmpty /\ ~cloud =>
                            /\ cv_layers[id].qfs.sourceDataPrimaryKeys = NameEmpty
                            /\ ~cv_layers[id].qfs.unsupported_source_pk
                            /\ cv_layers[id].read_only = CvOriginal(id).read_only
                            /\ \A k \in CvBranchCalls(id) :
                                  cv_calls[k] =
                                      CvBranchCallOf(action(CvOriginal(id)), id)
    /\ cv_pc = "finally"
       /\ cv_outcome \notin {"returned", "PackagingCanceledError"} =>
          \E k \in 1..Len(cv_calls) : cv_calls[k].op = "convert_to_offline"

\* a Cloud run over a table without a usable key and one with a key returns
C15_Witness ==
    /\ cv_pc = "finally"
    /\ cv_outcome = "returned"
    /\ cv_args.export_type = "Cloud"
    /\ CvValidVector(1)
    /\ pk_attr_name(CvOriginal(1)) = NameEmpty
    /\ cloud_action(CvOriginal(1)) = OFFLINE
    /\ cv_layers[1].read_only
    /\ cv_layers[1].qfs.unsupported_source_pk
    /\ CvBranchCalls(1) # {}
    /\ CvValidVector(2)
    /\ cv_layers[2].qfs.sourceDataPrimaryKeys = NameId

C15_WitnessCable ==
    /\ cv_pc = "finally"
    /\ cv_outcome = "returned"
    /\ cv_args.export_type = "Cable"
    /\ CvValidVector(1)
    /\ pk_attr_name(CvOriginal(1)) = NameEmpty
    /\ ~cv_layers[1].read_only
    /\ \E k \in CvBranchCalls(1) : cv_calls[k].op = "offline_layers.append"

\* the loop has just called copy on a layer that is not a file
CvCopiedNonFile(id) ==
    /\ CvRunning
    /\ cv_pc = "layers"
    /\ cv_calls # <<>>
    /\ cv_calls[Len(cv_calls)].op = "copy"
    /\ cv_calls[Len(cv_calls)].layer = id
    /\ ~CvOriginal(id).is_file

\* C16, as the claim words it: after copy on a layer that is not a file no
\* file is copied, the data source is unchanged and copied_files is the list
\* it was
C16_AsStated ==
    \A id \in ConvLayerIds :
        CvCopiedNonFile(id) =>
            /\ id \notin cv_disk.layer_files
            /\ cv_layers[id].source = CvOriginal(id).source
            /\ cv_locals.copied_files = "list"

\* copy returned None and the loop bound copied_files to it
C16_Diverges ==
    \E id \in ConvLayerIds :
        /\ CvCopiedNonFile(id)
        /\ ~cv_calls[Len(cv_calls)].keep_existent
        /\ CvOriginal(id).provider = "wms"
        /\ id \notin cv_disk.layer_files
        /\ cv_layers[id].source = CvOriginal(id).source
        /\ cv_locals.copied_files = "None"

\* a converted geometry layer none of whose features lies in the region
OffOutsideRegion(id) ==
    /\ id \in OffConverted
    /\ off_layers[id].spatial
    /\ \A f \in ProviderFeatures(off_layers[id].base) : ~f.in_bbox

\* C17, as the claim words it: with a region that holds no feature of a
\* geometry layer the conversion succeeds, the layer's table is made and it
\* holds no feature
C17_AsStated ==
    off_pc = "done" /\ off_args.bbox =>
        \A id \in DOMAIN off_layers :
            OffOutsideRegion(id) =>
                /\ Cardinality(OffTablesNamed(OffHashOf(id))) = 1
                /\ \A t \in OffTablesNamed(OffHashOf(id)) : t.rows = <<>>

\* the table of such a layer holds the feature that lies outside the region
C17_Diverges ==
    /\ off_pc = "done"
    /\ off_args.bbox
    /\ \E id \in DOMAIN off_layers :
          /\ OffOutsideRegion(id)
          /\ off_layers[id].base = "s3"
          /\ \E t \in OffTablesNamed(OffHashOf(id)) : t.rows = <<4>>

\* no reason prevents the packaging of the layer
CvPackaged(id) == CvOriginal(id).valid /\ ~CvUnsupported(id)

\* layer_action at the checkpoint: NO_ACTION for a valid vector layer of a
\* Cloud run without a usable key, else the configured action
CvEffectiveAction(id) ==
    IF /\ CvValidVector(id)
       /\ pk_attr_name(CvOriginal(id)) = NameEmpty
       /\ cv_args.export_type = "Cloud"
    THEN NO_ACTION
    ELSE CvConfiguredAction(id)

\* the branch of layer_action was taken for the layer, and only that one
CvTookBranch(layer_action, id) ==
    /\ Cardinality(CvBranchCalls(id)) <= 1
    /\ CvLoopPast(id) => Cardinality(CvBranchCalls(id)) = 1
    /\ \A k \in CvBranchCalls(id) : cv_calls[k] = CvBranchCallOf(layer_action, id)
    /\ id \in OfflineLayerIds <=>
          CvBranchCalls(id) # {} /\ layer_action = OFFLINE
    /\ id \in OfflineLayerIds =>
          /\ id \notin cv_disk.layer_files
          /\ cv_layers[id].present
    /\ id \in cv_disk.layer_files <=>
          /\ CvBranchCalls(id) # {}
          /\ layer_action \in {COPY, NO_ACTION, KEEP_EXISTENT}
          /\ CvOriginal(id).is_file
    /\ ~cv_layers[id].present <=>
          CvBranchCalls(id) # {} /\ layer_action = REMOVE

\* C18, as the claim words it: the branch is that of action in a Cable run
\* and of cloud_action in a Cloud run
C18_AsStated ==
    CvRunning /\ cv_pc # "done" =>
        \A id \in ConvLayerIds :
            CvPackaged(id) => CvTookBranch(CvConfiguredAction(id), id)

\* C18: every layer that is not prevented from packaging takes exactly one
\* branch, that of action in a Cable run and of cloud_action in a Cloud run,
\* except that a valid vector layer without a usable primary key takes the
\* NO_ACTION branch in a Cloud run: OFFLINE appends the layer to
\* offline_layers and copies nothing, COPY and NO_ACTION call the overwriting
\* copy, KEEP_EXISTENT the copy that keeps existing files, REMOVE removes the
\* layer; no layer is both in offline_layers and copied or removed.
C18_Dispatch ==
    /\ CvRunning /\ cv_pc # "done" =>
          \A id \in ConvLayerIds :
              CvPackaged(id) => CvTookBranch(CvEffectiveAction(id), id)
    /\ Len(cv_locals.offline_layers) = Cardinality(OfflineLayerIds)

\* a Cable run that appended its first layer and copied its second, a file
C18_Witness ==
    /\ cv_pc = "check_350"
    /\ cv_args.export_type = "Cable"
    /\ CvEffectiveAction(1) = OFFLINE
    /\ cv_locals.offline_layers = <<1>>
    /\ CvEffectiveAction(2) = COPY
    /\ cv_disk.layer_files = {2}
    /\ \E k \in CvBranchCalls(2) : ~cv_calls[k].keep_existent

C18_WitnessCloudNoKey ==
    /\ cv_pc = "check_350"
    /\ cv_args.export_type = "Cloud"
    /\ CvConfiguredAction(1) = OFFLINE
    /\ CvEffectiveAction(1) = NO_ACTION
    /\ \E k \in CvBranchCalls(1) : cv_calls[k].op = "copy"
    /\ CvEffectiveAction(2) = REMOVE
    /\ ~cv_layers[2].present

CvCallsNamed(op) == { k \in 1..Len(cv_calls) : cv_calls[k].op = op }

\* the layers whose branch is that of OFFLINE
CvOfflineSet ==
    { id \in ConvLayerIds : CvPackaged(id) /\ CvEffectiveAction(id) = OFFLINE }

\* every layer has had its turn in the loop before call k
CvAllClassifiedBefore(k) ==
    /\ \A j \in 1..Len(cv_calls) : j > k => cv_calls[j].layer = 0
    /\ \A id \in ConvLayerIds :
          /\ CvPackaged(id) => \E j \in CvBranchCalls(id) : j < k
          /\ CvToRemove(id) => \E j \in CvCallsOf("removeMapLayer", id) : j < k

\* convert_to_offline was called and the run ended with an error
CvEngineFailed ==
    /\ cv_pc = "finally"
    /\ CvCallsNamed("convert_to_offline") # {}
    /\ cv_outcome \notin {"returned", "PackagingCanceledError"}

CvNothingAfterEngine ==
    /\ cv_calls[Len(cv_calls)].op = "convert_to_offline"
    /\ CvCallsNamed("post_process_offline_layers") = {}
    /\ ~cv_locals.post_processed
    /\ Cardinality(CvCallsNamed("write")) = 1
    /\ cv_disk.project = "first"

C19_WitnessRaised ==
    /\ CvEngineFailed
    /\ cv_outcome = "RuntimeError"
    /\ CvNothingAfterEngine

C19_WitnessNoOfflineLayers ==
    /\ cv_pc = "finally"
    /\ cv_outcome = "returned"
    /\ CvOfflineSet = {}
    /\ CvCallsNamed("convert_to_offline") = {}
    /\ \E id \in ConvLayerIds : CvBranchCalls(id) # {}

\* the checkpoints are where the claim puts them: one right before the
\* branch of each layer, one right before convert_to_offline and one right
\* after it
CvCheckpointOrder ==
    CvRunning =>
        /\ \A id \in ConvLayerIds :
              CvPackaged(id) =>
                  \A k \in CvBranchCalls(id) :
                      k > 1 /\ cv_calls[k - 1] = CheckCanceled("layer", id)
        /\ \A k \in CvCallsNamed("convert_to_offline") :
              /\ k > 1
              /\ cv_calls[k - 1] = CheckCanceled("395", 0)
              /\ k < Len(cv_calls) => cv_calls[k + 1] = CheckCanceled("411", 0)
        /\ (cv_is_canceled /\ cv_pc \in {"layers", "layer_check", "check_350",
                                         "dirs", "check_395"}) =>
              CvCallsNamed("convert_to_offline") = {}

\* the layers of the project that are in it, copied, or in offline_layers
CvLayerEffects ==
    <<cv_locals.offline_layers, cv_disk.layer_files,
      { id \in ConvLayerIds : CvPackaged(id) /\ cv_layers[id].present },
      [id \in ConvLayerIds |-> cv_layers[id].source]>>

\* with _is_canceled set, no step of the layer loop copies, removes or
\* appends a layer that is not prevented from packaging, and the loop is
\* left at the checkpoint
CvCanceledLayerStep ==
    (cv_is_canceled /\ cv_pc \in {"layers", "layer_check"}) =>
        /\ CvLayerEffects' = CvLayerEffects
        /\ \A id \in ConvLayerIds :
              CvPackaged(id) =>
                  { k \in 1..Len(cv_calls') :
                      cv_calls'[k].layer = id /\ cv_calls'[k].op # "_check_canceled" }
                  = CvBranchCalls(id)
        /\ cv_pc = "layer_check" => cv_pc' = "finally"
        /\ cv_pc' \in {"layers", "layer_check", "check_350", "finally"}

\* C20: _check_canceled is evaluated for each layer that is not prevented
\* from packaging right before its branch, and right before and right after
\* convert_to_offline; once cancel() was called before a layer's checkpoint
\* neither that layer nor a later one is copied, removed or appended to
\* offline_layers, and once it was called before the checkpoint of line 395
\* convert_to_offline is never called.
C20_Checkpoints == [](CvCheckpointOrder) /\ [][CvCanceledLayerStep]_vars

\* canceled before the second layer's checkpoint: the first layer was
\* appended, the second is untouched and the offliner was not called
C20_Witness ==
    /\ cv_pc = "finally"
    /\ cv_outcome = "PackagingCanceledError"
    /\ cv_calls[Len(cv_calls)] = CheckCanceled("layer", 2)
    /\ cv_locals.offline_layers = <<1>>
    /\ CvEffectiveAction(2) = COPY
    /\ CvBranchCalls(2) = {}
    /\ cv_disk.layer_files = {}
    /\ CvCallsNamed("convert_to_offline") = {}

C20_WitnessPreBatch ==
    /\ cv_pc = "finally"
    /\ cv_outcome = "PackagingCanceledError"
    /\ cv_calls[Len(cv_calls)] = CheckCanceled("395", 0)
    /\ cv_locals.offline_layers # <<>>
    /\ CvCallsNamed("convert_to_offline") = {}

(***************************************************************************)
(* Claims about the value relations (SpecLinker).                          *)
(***************************************************************************)
\* the layers of the output project whose remoteSource is the source the
\* snapshot holds for layer b
CvMatchesBySource(b) ==
    { id \in PresentIds(cv_layers) :
        cv_layers[id].props.remoteSource = cv_layer_data_by_id[b].source }

CvMatchesByName(b) ==
    { id \in PresentIds(cv_layers) :
        cv_layers[id].name = cv_layer_data_by_id[b].name }

\* C21, as the claim words it: when some layer of the output project
\* matches the referenced layer by source, the widget names a layer that
\* matches by source, whatever layer matches by name
C21_AsStated ==
    cv_locals.post_processed /\ cv_pc = "check_422" =>
        \A a \in PresentIds(cv_layers) :
            LET b == cv_layer_data_by_id[a].value_relation
            IN  b \in DOMAIN cv_layer_data_by_id /\ CvMatchesBySource(b) # {} =>
                    cv_layers[a].widget \in CvMatchesBySource(b)

\* layer 2 matches the referenced layer by source, layer 1 only by name and
\* comes first: the widget names layer 1
C21_Diverges ==
    /\ cv_locals.post_processed
    /\ cv_pc = "check_422"
    /\ {1, 2} \subseteq DOMAIN cv_layer_data_by_id
    /\ cv_layer_data_by_id[1].value_relation = 2
    /\ CvMatchesBySource(2) = {2}
    /\ CvMatchesByName(2) = {1, 2}
    /\ cv_layers[1].widget = 1

\* the layers of the output project that have a field with a value relation
CvRelationLayers ==
    { a \in PresentIds(cv_layers) :
        /\ a \in DOMAIN cv_layer_data_by_id
        /\ cv_layer_data_by_id[a].value_relation # 0 }

\* the id the referenced layer is looked up with: the widget's, or the
\* remoteLayerId of the project's layer of that id when the snapshot has not
\* got the widget's
CvReferencedId(a) ==
    LET b == cv_layer_data_by_id[a].value_relation
    IN  IF b \in DOMAIN cv_layer_data_by_id THEN b
        ELSE IF b \in PresentIds(cv_layers) THEN cv_layers[b].props.remoteLayerId
        ELSE b

CvUnresolved(a) ==
    \/ CvReferencedId(a) \notin DOMAIN cv_layer_data_by_id
    \/ /\ CvMatchesBySource(CvReferencedId(a)) = {}
       /\ CvMatchesByName(CvReferencedId(a)) = {}

CvFieldWarnings(a) ==
    { k \in CvCallsNamed("warning.emit") :
        cv_calls[k].at = "field" /\ cv_calls[k].layers = <<a>> }

\* C22: when the layer a value relation refers to is found neither by source
\* nor by name, or its id is not in the snapshot and cannot be recovered,
\* exactly one warning is emitted for the field, the widget is left as it
\* was, and the run goes on to return; a value relation that is resolved
\* emits no warning.
C22_UnresolvedRelation ==
    /\ cv_locals.post_processed /\ cv_pc \in {"check_422", "finally"} =>
          \A a \in CvRelationLayers :
              IF CvUnresolved(a)
              THEN /\ Cardinality(CvFieldWarnings(a)) = 1
                   /\ cv_layers[a].widget = cv_layer_data_by_id[a].value_relation
              ELSE CvFieldWarnings(a) = {}
    /\ cv_locals.post_processed /\ cv_pc = "finally" =>
          /\ cv_outcome = "returned"
          /\ cv_disk.project = "final"
    /\ ~cv_locals.post_processed => CvCallsNamed("warning.emit") = {}

\* layer 1 refers to layer 2, which the run removed: nothing in the output
\* project has its source or its name
C22_Witness ==
    /\ cv_locals.post_processed
    /\ cv_pc = "finally"
    /\ cv_outcome = "returned"
    /\ 1 \in CvRelationLayers
    /\ cv_layer_data_by_id[1].value_relation = 2
    /\ 2 \in DOMAIN cv_layer_data_by_id
    /\ ~cv_layers[2].present
    /\ CvUnresolved(1)
    /\ Cardinality(CvFieldWarnings(1)) = 1
    /\ cv_layers[1].widget = 2

\* layer 1 refers to layer 2, which was invalid and has no snapshot
C22_WitnessNoSnapshot ==
    /\ cv_locals.post_processed
    /\ cv_pc = "finally"
    /\ 1 \in CvRelationLayers
    /\ cv_layer_data_by_id[1].value_relation = 2
    /\ 2 \notin DOMAIN cv_layer_data_by_id
    /\ Cardinality(CvFieldWarnings(1)) = 1

(* Claims about the writes of the output project (Spec). *)
\* the calls of the steps between the two writes: the checkpoints of the
\* attachment directories, the batch conversion and the post-processing
CvMiddleCalls ==
    { k \in 1..Len(cv_calls) :
        \/ cv_calls[k].op \in {"convert_to_offline", "post_process_offline_layers",
                               "warning.emit"}
        \/ cv_calls[k].op = "_check_canceled"
           /\ cv_calls[k].at \in {"378", "395", "411", "422"} }

CvFirstWriteInPlace(w) ==
    /\ CvAllClassifiedBefore(w)
    /\ \A k \in CvMiddleCalls : k > w

\* C23: a run that returns has written the project exactly twice; the first
\* write comes after the turn of every layer and before the attachment
\* directories, the batch conversion and the post-processing, the second is
\* the last call; a run that ends with an error after the first write has
\* written once.
C23_WriteOrder ==
    /\ CvRunning =>
          /\ Cardinality(CvCallsNamed("write")) <= 2
          /\ \A w \in CvCallsNamed("write") :
                \/ CvFirstWriteInPlace(w)
                \/ /\ w = Len(cv_calls)
                   /\ \E v \in CvCallsNamed("write") : v < w
                   /\ \A k \in CvMiddleCalls : k < w
          /\ cv_disk.project =
                IF Cardinality(CvCallsNamed("write")) = 0 THEN "absent"
                ELSE IF Cardinality(CvCallsNamed("write")) = 1 THEN "first"
                ELSE "final"
    /\ cv_pc \in {"finally", "done"} =>
          IF cv_outcome = "returned"
          THEN /\ Cardinality(CvCallsNamed("write")) = 2
               /\ cv_calls[Len(cv_calls)].op = "write"
          ELSE Cardinality(CvCallsNamed("write")) <= 1

\* a run that returned, with an attachment directory copied and layers
\* converted between its two writes
C23_Witness ==
    /\ cv_pc = "done"
    /\ cv_outcome = "returned"
    /\ Cardinality(CvCallsNamed("write")) = 2
    /\ CvCallsNamed("convert_to_offline") # {}
    /\ cv_disk.attachments # {}
    /\ cv_locals.post_processed

\* a run canceled between the two writes
C23_WitnessCanceled ==
    /\ cv_pc = "done"
    /\ cv_outcome = "PackagingCanceledError"
    /\ Cardinality(CvCallsNamed("write")) = 1
    /\ cv_locals.post_processed
    /\ cv_disk.project = "first"

(* Claims about the features and the bookkeeping of the offliner           *)
(* (SpecOffliner).                                                         *)
\* the features of the layer's provider that lie in the region
OffInRegion(id) == { f.id : f \in { g \in ProviderFeatures(off_layers[id].base) : g.in_bbox } }

OffRowsOf(id) ==
    UNION { { t.rows[i] : i \in 1..Len(t.rows) } : t \in OffTablesNamed(OffHashOf(id)) }

\* C24, as the claim words it: with a region and a converted layer that has
\* geometries, the layer's table holds only features of the region
C24_AsStated ==
    off_pc = "done" /\ off_args.bbox =>
        \A id \in OffConverted :
            off_layers[id].spatial => OffRowsOf(id) \subseteq OffInRegion(id)

\* the table of a layer with one feature in the region and one outside it
\* holds both
C24_Diverges ==
    /\ off_pc = "done"
    /\ off_args.bbox
    /\ \E id \in OffConverted :
          /\ off_layers[id].spatial
          /\ off_layers[id].base = "s1"
          /\ OffInRegion(id) = {1}
          /\ OffRowsOf(id) = {1, 2}

\* the layer keeps the filter it had and carries the given remoteSource
OffBookkeeping(id, remote_source) ==
    /\ off_layers[id].source.subset = off_original[id].source.subset
    /\ off_layers[id].props.isOfflineEditable
    /\ off_layers[id].props.remoteSource = remote_source
    /\ off_layers[id].props.remoteProvider = off_original[id].provider
    /\ off_layers[id].props.remoteLayerId = id

OffUntouched(id) ==
    /\ off_layers[id].source = off_original[id].source
    /\ off_layers[id].provider = off_original[id].provider
    /\ off_layers[id].props = off_original[id].props

CvCheckpointCalls == CvCallsNamed("_check_canceled")

\* the layers project_layers holds in this run that no reason prevents
CvCheckedLayers ==
    { id \in ConvLayerIds : CvOriginal(id).present /\ CvPackaged(id) }

\* the first _check_canceled() of a run: that of the first layer that can be
\* packaged, that of line 350 when there is none
CvFirstCheckpoint ==
    IF CvCheckedLayers = {} THEN CheckCanceled("350", 0)
    ELSE CheckCanceled("layer", FirstIndex(CvCheckedLayers))

\* a run started with the flag set has ended at its first checkpoint
CvEndedAtFirstCheckpoint ==
    /\ cv_outcome = "PackagingCanceledError"
    /\ Cardinality(CvCheckpointCalls) = 1
    /\ cv_calls[Len(cv_calls)] = CvFirstCheckpoint
    /\ \A k \in 1..(Len(cv_calls) - 1) : cv_calls[k].op = "removeMapLayer"
    /\ ~cv_locals.post_processed
    /\ cv_locals.offline_layers = <<>>

CvFlagKept == cv_is_canceled => cv_is_canceled'

\* C27: _is_canceled is False on a new converter and is never reset once
\* cancel() set it; a convert() started with the flag set ends with
\* PackagingCanceledError at the first checkpoint of the run.
C27_CancelSticks ==
    /\ [](cv_pc = "new" => ~cv_is_canceled)
    /\ [][CvFlagKept]_vars
    /\ [](cv_run.canceled_at_start =>
            /\ cv_is_canceled
            /\ cv_pc \in {"finally", "done"} => CvEndedAtFirstCheckpoint)

\* a second run on a converter canceled during the first, ended at the
\* checkpoint of its second layer after the first was removed
C27_Witness ==
    /\ cv_run = [n |-> 2, canceled_at_start |-> TRUE]
    /\ cv_pc = "done"
    /\ cv_outcome = "PackagingCanceledError"
    /\ cv_calls = <<Call("removeMapLayer", 1, "", FALSE, <<>>),
                    CheckCanceled("layer", 2)>>

\* a second run canceled between the runs, after a first run that returned
C27_WitnessBetweenRuns ==
    /\ cv_run = [n |-> 2, canceled_at_start |-> TRUE]
    /\ cv_pc = "done"
    /\ cv_disk.project = "final"
    /\ cv_outcome = "PackagingCanceledError"

(* Claims about the project's title and offline entry (SpecOffliner). *)
\* the titles the project may have had before the call, each with the suffix
OffSuffixedTitles ==
    { <<"Title", " (offline)">>, off_project.baseName \o <<" (offline)">> }

\* C28, as the claim words it: after the call the title is the title before
\* the call, or the base name of the project's file, once, followed by
\* " (offline)", and OfflineDbPath is the path of the GeoPackage
C28_AsStated ==
    off_pc = "done" =>
        /\ off_project.title \in OffSuffixedTitles
        /\ off_project.OfflineDbPath = OfflineGpkgPath

\* the title holds the title before the call twice
C28_Diverges ==
    /\ off_pc = "done"
    /\ off_project.title = <<"Title", "Title", " (offline)">>
    /\ off_project.OfflineDbPath = OfflineGpkgPath

(* Claims about the layer tree (SpecTree). *)
RECURSIVE TgAttached(_)
\* the node is still in the tree under the root
TgAttached(n) ==
    \/ n = TgRoot
    \/ tg_nodes[n].present /\ TgAttached(tg_nodes[n].parent)

RECURSIVE TgHoldsLayer(_)
\* the node is a layer or had, when the call began, a layer under it
TgHoldsLayer(n) ==
    \/ tg_nodes[n].kind = "layer"
    \/ \E c \in TgNodeIds : tg_nodes[c].parent = n /\ TgHoldsLayer(c)

\* C29: after the call no group below the root is left without children, a
\* group emptied by the removal of its groups included, and every layer and
\* every group that held a layer, directly or not, is still in the tree.
C29_EmptyGroups ==
    tg_pc = "done" =>
        \A n \in TgNodeIds \ {TgRoot} :
            /\ tg_nodes[n].kind = "group" /\ TgAttached(n) =>
                  \E c \in TgNodeIds : tg_nodes[c].parent = n /\ TgAttached(c)
            /\ TgHoldsLayer(n) => TgAttached(n)

\* group 3 is empty and the only child of group 2: both are removed, while
\* group 4 keeps its layer
C29_Witness ==
    /\ tg_pc = "done"
    /\ tg_nodes[2] = [kind |-> "group", parent |-> 1, present |-> FALSE]
    /\ tg_nodes[3] = [kind |-> "group", parent |-> 2, present |-> FALSE]
    /\ tg_nodes[4] = TgNode("group", 1)
    /\ tg_nodes[5] = TgNode("layer", 4)

(* Claims about ProjectChecker.check (SpecChecker). *)
\* the checks of layer_checks called on the layer
PckCalledOn(layer) == { c.check : c \in { d \in pck_called : d.layer = layer } }

\* the checks of layer_checks without a scope or of the scope asked
PckInScope ==
    { c \in 1..Len(layer_checks) : layer_checks[c].scope \in {"None", pck_scope} }

PckActionInScope(layer) ==
    IF pck_scope = "Cable" THEN pck_layers[layer].action
    ELSE pck_layers[layer].cloud_action

RECURSIVE PckSumLen(_, _)
PckSumLen(feedbacks, keys) ==
    IF keys = {} THEN 0
    ELSE LET k == CHOOSE x \in keys : TRUE
         IN  Len(feedbacks[k]) + PckSumLen(feedbacks, keys \ {k})

\* the feedbacks stored, of all keys
PckStored ==
    UNION { { checked_feedback.feedbacks[k][i] :
                i \in 1..Len(checked_feedback.feedbacks[k]) } :
            k \in DOMAIN checked_feedback.feedbacks }

PckErrors ==
    { checked_feedback.error_feedbacks[i] :
        i \in 1..Len(checked_feedback.error_feedbacks) }

PckCounts ==
    /\ checked_feedback.count =
          PckSumLen(checked_feedback.feedbacks, DOMAIN checked_feedback.feedbacks)
    /\ PckErrors = { f \in PckStored : f.level = "ERROR" }
    /\ Len(checked_feedback.error_feedbacks) = Cardinality(PckErrors)

\* C30, as the claim words it: a layer removed from both kinds of export
\* has no feedback; on any other layer whose action in the scope asked is
\* not REMOVE every check without a scope or of the scope asked is called,
\* whatever its action in the other kind of export; no check of the other
\* scope is called; count is the number of feedbacks stored and
\* error_feedbacks holds those of level ERROR
C30_AsStated ==
    /\ PckCounts
    /\ pck_pc = "done" =>
          \A layer \in CheckLayerIds :
              /\ PckCalledOn(layer) \subseteq PckInScope
              /\ pck_layers[layer].action = REMOVE
                 /\ pck_layers[layer].cloud_action = REMOVE =>
                    /\ PckCalledOn(layer) = {}
                    /\ layer \notin DOMAIN checked_feedback.feedbacks
              /\ PckActionInScope(layer) # REMOVE => PckCalledOn(layer) = PckInScope

\* a check for Cable on a layer that is removed from the Cloud export only:
\* the checks past check_layer_primary_key are not called, and what they
\* would have found is not reported
C30_Diverges ==
    /\ pck_pc = "done"
    /\ pck_scope = "Cable"
    /\ pck_layers[1].action = OFFLINE
    /\ pck_layers[1].cloud_action = REMOVE
    /\ pck_layers[1].finds = 1..Len(layer_checks)
    /\ PckInScope = {1, 2, 3, 5, 6, 7}
    /\ PckCalledOn(1) = {1, 2, 3}
    /\ Len(checked_feedback.feedbacks[1]) = 3
    /\ PckCounts

(* Claims about LayerSource.apply (SpecApply). *)
\* the calls of apply() that follow a call of apply() at once
ApRepeated ==
    { i \in 2..Len(ap_calls) :
        ap_calls[i].op = "apply" /\ ap_calls[i - 1].op = "apply" }

\* C26, as the claim words it: an apply() that follows an apply() without a
\* setter in between returns False and leaves the properties as they were
C26_AsStated ==
    \A i \in ApRepeated :
        /\ ~ap_calls[i].ret
        /\ ap_calls[i].props = ap_calls[i - 1].props

\* the second of two calls of apply() returns True though it leaves every
\* property as the first left it
C26_Diverges ==
    /\ Len(ap_calls) = 2
    /\ 2 \in ApRepeated
    /\ ap_calls[2].ret
    /\ ap_calls[2].props = ap_calls[1].props
    /\ ap_props = ApplyProps(ap_props, ap_self)

====
